---------------------------- MODULE Spec2Model ----------------------------
(***************************************************************************)
(* Model of the audio/video call engine CoreAV (coreav.cpp, stored as      *)
(* src/buildscripts/download/download_qt.sh lines 142-1588).               *)
(*                                                                         *)
(* The state is the peer-call registry `calls` (std::map<uint32_t,         *)
(* ToxFriendCallPtr>), the audio backend pointer, and a record of what the *)
(* most recent handler did: its return value, the transport primitives it  *)
(* invoked (in order, with the transport's answer) and the Qt signals it   *)
(* emitted (in order, with the lock mode held at the emit).                *)
(*                                                                         *)
(* Specification Spec runs every handler as one atomic step, i.e. it is    *)
(* the sequential contract of each handler.  The transport (toxav) is an   *)
(* external library: each answer it gives is an input of the action.       *)
(***************************************************************************)
EXTENDS Integers, Sequences, FiniteSets, TLC

VARIABLES
    calls,      \* CoreAV::calls : friendNum -> ToxFriendCall, DOMAIN = keys present
    audio,      \* CoreAV::audio != nullptr
    aborted,    \* an assert() of the code has failed
    last,       \* what the most recent handler did
    snap,       \* the registry as it was before the most recent handler ran
    nops,       \* number of handlers run so far
    groupCalls, \* CoreAV::groupCalls : groupNum -> ToxGroupCall
    gsnap,      \* groupCalls as it was before the most recent handler ran
    thr,        \* per thread: the handler it is in and its position there
    callsLock,  \* CoreAV::callsLock : writer, its depth, read depth per thread
    audioSettings, \* IAudioSettings: the values the getters return now
    enc,        \* per peer: the video encoder options in force in the transport
    coreavThread,  \* CoreAV::coreavThread : "new", "running" or "finished"
    iterateTimer,  \* CoreAV::iterateTimer : armed or not, interval, queued timeout
    aec_mutex,  \* CoreAV::aec_mutex : the thread that holds it, or "none"
    dsp,        \* echo canceller and noise suppressor configuration, and the
                \* function-static remembered configuration of sendCallAudio
    frame,      \* a buffer of samples handed to the resamplers and what came back
    notified,   \* per peer: what the signals emitted so far have told the UI
    fileInfos,  \* History::fileInfos : fileId -> FileInfo, DOMAIN = keys present
    db          \* History::db : rows inserted, queries queued with execLater;
                \* and the files whose completion has been reported to History

(* the state beyond the registry and its lock *)
more == <<notified, fileInfos, db>>
ext == <<audioSettings, enc, coreavThread, iterateTimer, aec_mutex, dsp, frame, more>>

vars == <<calls, audio, aborted, last, snap, nops, groupCalls, gsnap, thr, callsLock,
          audioSettings, enc, coreavThread, iterateTimer, aec_mutex, dsp, frame,
          notified, fileInfos, db>>

----------------------------------------------------------------------------
(* Bounds of the model *)

NumPeers == 2
MaxOps == 3
MaxSyncs == 4
NumGroups == 1
MaxSamples == 4800
MaxMode == 1
MaxChunks == 2
NumFiles == 2

Peers == 1..NumPeers
Groups == 1..NumGroups
(* the UI thread, the iteration thread (transport callbacks), the video
   producer thread and the audio capture thread *)
Threads == {"ui", "av", "video", "audio"}
(* a null Friend* / Group* *)
Null == 0

----------------------------------------------------------------------------
(* Program constants *)

AUDIO_SAMPLE_RATE == 48000
MaxRetries == 3

(* TOXAV_FRIEND_CALL_STATE bits; a bitmask is modelled as the set of its bits *)
StateBits == {"ERROR", "FINISHED", "SENDING_A", "SENDING_V", "ACCEPTING_A", "ACCEPTING_V"}
StateMasks == SUBSET StateBits

(* answers of the transport: Toxav_Err_* == OK, some error, or (send frame) SYNC *)
TxResults == {"OK", "ERR"}
SendResults == {"OK", "ERR", "SYNC"}

(* audioSettings.getScreenVideoFPS() *)
FPSValues == {20, 25, 30, 15}
Channels == {1, 2}
Rates == {AUDIO_SAMPLE_RATE, 16000}

----------------------------------------------------------------------------
(* ToxCall / ToxFriendCall (toxcall.cpp is not part of the sources at hand) *)

NewCall(video) ==
    [active |-> FALSE, muteMic |-> FALSE, muteVol |-> FALSE,
     videoEnabled |-> video, nullVideoBitrate |-> FALSE, state |-> {}]

(* toxcoreerrorparser: PARSE_ERR(err) is true iff err is the OK code *)
PARSE_ERR(err) == err = "OK"

(* std::map::emplace *)
Emplace(cs, k, v) == [x \in (DOMAIN cs) \cup {k} |-> IF x = k THEN v ELSE cs[x]]
(* std::map::erase(key) *)
Erase(cs, k) == [x \in (DOMAIN cs) \ {k} |-> cs[x]]

Tx(f, p, r) == [f |-> f, p |-> p, r |-> r]
Ev(sig, p, flag, lock) == [sig |-> sig, p |-> p, flag |-> flag, lock |-> lock]

NoOpts == <<>>

(* the bitrate table of startCall / answerCall / videoCommCallback:
   <<AUTOSET, MAX_BITRATE, MIN_BITRATE>> as handed to toxav_option_set *)
BitrateRow(fps) ==
    IF fps = 30 THEN <<0, 11000, 10000>>
    ELSE IF fps = 25 THEN <<0, 11000, 10000>>
    ELSE IF fps = 20 THEN <<1, 180, 2700>>
    ELSE NoOpts

(* result of a handler: return value, registry afterwards, transport calls in
   order, signals in order, encoder options set, filter pipeline run, call made
   on the video source, assertion failed *)
Res(ret, cs) ==
    [ret |-> ret, calls |-> cs, tx |-> <<>>, ev |-> <<>>, opts |-> NoOpts,
     filt |-> FALSE, vs |-> "none", abort |-> FALSE]

----------------------------------------------------------------------------
(* Queries *)

isCallStarted(cs, f) == f \in DOMAIN cs

isCallActive(cs, f) ==
    IF f \notin DOMAIN cs THEN FALSE
    ELSE isCallStarted(cs, f) /\ cs[f].active

----------------------------------------------------------------------------
TypeOK ==
    /\ DOMAIN calls \subseteq Peers
    /\ audio \in BOOLEAN
    /\ aborted \in BOOLEAN
    /\ nops \in 0..MaxOps
    /\ DOMAIN groupCalls \subseteq Groups

(* the transport's encoder options before any toxav_option_set *)
TransportDefault == <<"transport">>

(* CoreAV::CoreAV: thread and timer created, not started; the echo canceller
   and the noise suppressor configured from the settings as they are then
   (config.echoMode = AecmTrue, config.cngMode = getAecechomode()); the
   function-static remembered modes of sendCallAudio start at 0 *)
Constructed(settings, statics) ==
    [alive |-> TRUE, echoMode |-> 1, cngMode |-> settings.aecechomode,
     nsPolicy |-> settings.aecechonsmode,
     current_aec_echo_mode |-> statics.current_aec_echo_mode,
     current_aec_ns_echo_mode |-> statics.current_aec_ns_echo_mode]

FreshStatics == [current_aec_echo_mode |-> 0, current_aec_ns_echo_mode |-> 0]

DefaultSettings ==
    [screenVideoFPS |-> 20, echoCancellation |-> TRUE,
     aecechomode |-> 0, aecechonsmode |-> 0]

(* what the UI has been told about a peer: an invite it has not yet answered,
   an end it has not yet processed, and the number of starts announced since
   the peer's Call was inserted *)
NotNotified == [invited |-> FALSE, ended |-> FALSE, started |-> 0]

NoFrame == [n |-> 0, op |-> "none", ret |-> 0, mid |-> 0, written |-> 0]

(* no signal emitted yet; History constructed: no file known, nothing queued *)
InitMore ==
    /\ notified = [p \in Peers |-> NotNotified]
    /\ fileInfos = << >>
    /\ db = [rows |-> {}, later |-> <<>>, reported |-> {}]

InitExt ==
    /\ audioSettings = DefaultSettings
    /\ enc = [p \in Peers |-> TransportDefault]
    /\ coreavThread = "new"
    /\ iterateTimer = [active |-> FALSE, interval |-> 0, pending |-> FALSE]
    /\ aec_mutex = "none"
    /\ dsp = Constructed(DefaultSettings, FreshStatics)
    /\ frame = NoFrame
    /\ InitMore

InitRegistry ==
    /\ calls = << >>
    /\ audio = FALSE
    /\ aborted = FALSE
    /\ last = [op |-> "init", peer |-> 0, arg |-> <<>>, ret |-> "void", tx |-> <<>>,
               ev |-> <<>>, opts |-> NoOpts, filt |-> FALSE, vs |-> "none"]
    /\ snap = << >>
    /\ nops = 0
    /\ groupCalls = << >>
    /\ gsnap = << >>
    /\ thr = [t \in Threads |-> [pc |-> "idle", p |-> Null, caller |-> "none",
                                  err |-> "OK", cur |-> Null]]
    /\ callsLock = [w |-> "none", n |-> 0, r |-> [t \in Threads |-> 0],
                    recursive |-> TRUE]

Init == InitRegistry /\ InitExt

(* a handler ran with result o: what it did to the registry and what it is
   remembered for *)
Did(op, p, arg, o) ==
    /\ nops < MaxOps
    /\ ~aborted
    /\ last.op # "~CoreAV"
    /\ nops' = nops + 1
    /\ snap' = calls
    /\ calls' = o.calls
    /\ aborted' = o.abort
    /\ last' = [op |-> op, peer |-> p, arg |-> arg, ret |-> o.ret, tx |-> o.tx,
                ev |-> o.ev, opts |-> o.opts, filt |-> o.filt, vs |-> o.vs]
    /\ gsnap' = groupCalls
    /\ UNCHANGED <<audio, groupCalls, thr, callsLock>>

(* a handler ran with result o and touched nothing beyond the registry *)
Ran(op, p, arg, o) == Did(op, p, arg, o) /\ UNCHANGED ext

SetAudio ==
    /\ ~aborted
    /\ audio' = TRUE
    /\ UNCHANGED <<calls, aborted, last, snap, nops, groupCalls, gsnap, thr, callsLock,
                   ext>>

----------------------------------------------------------------------------
(* startCall without the lookup of lines 622-627 *)
startCallNoFind(cs, au, friendNum, video, err, fps) ==
    IF ~PARSE_ERR(err)
    THEN [Res("false", cs) EXCEPT !.tx = <<Tx("toxav_call", friendNum, err)>>]
    ELSE [Res("true", Emplace(cs, friendNum, NewCall(video))) EXCEPT
              !.tx = <<Tx("toxav_call", friendNum, err)>>,
              !.opts = BitrateRow(fps)]

(* startCall marking the new call active, as joinGroupCall does *)
startCallActive(cs, au, friendNum, video, err, fps) ==
    IF friendNum \in DOMAIN cs
    THEN Res("false", cs)
    ELSE IF ~PARSE_ERR(err)
    THEN [Res("false", cs) EXCEPT !.tx = <<Tx("toxav_call", friendNum, err)>>]
    ELSE [Res("true", Emplace(cs, friendNum,
                              [NewCall(video) EXCEPT !.active = TRUE])) EXCEPT
              !.tx = <<Tx("toxav_call", friendNum, err)>>,
              !.opts = BitrateRow(fps)]

(* CoreAV::startCall, lines 615-666 *)
startCall(cs, au, friendNum, video, err, fps) ==
    IF friendNum \in DOMAIN cs
    THEN Res("false", cs)
    ELSE IF ~PARSE_ERR(err)
    THEN [Res("false", cs) EXCEPT !.tx = <<Tx("toxav_call", friendNum, err)>>]
    ELSE IF ~au
    THEN [Res("abort", cs) EXCEPT !.tx = <<Tx("toxav_call", friendNum, err)>>,
                                  !.abort = TRUE]
    ELSE [Res("true", Emplace(cs, friendNum, NewCall(video))) EXCEPT
              !.tx = <<Tx("toxav_call", friendNum, err)>>,
              !.opts = BitrateRow(fps)]

StartCall(p, video, err, fps) ==
    Ran("startCall", p, <<>>, startCall(calls, audio, p, video, err, fps))

(* answerCall keeping the entry when the transport rejects the answer *)
answerCallNoErase(cs, friendNum, video, err, controlErr, fps) ==
    IF friendNum \notin DOMAIN cs
    THEN [Res("abort", cs) EXCEPT !.abort = TRUE]
    ELSE IF err = "OK"
    THEN [Res("true", [cs EXCEPT ![friendNum].active = TRUE]) EXCEPT
              !.tx = <<Tx("toxav_answer", friendNum, err)>>,
              !.opts = BitrateRow(fps)]
    ELSE [Res("false", cs) EXCEPT
              !.tx = <<Tx("toxav_answer", friendNum, err),
                       Tx("toxav_call_control", friendNum, controlErr)>>]

(* CoreAV::answerCall, lines 569-613 *)
answerCall(cs, friendNum, video, err, controlErr, fps) ==
    IF friendNum \notin DOMAIN cs
    THEN [Res("abort", cs) EXCEPT !.abort = TRUE]
    ELSE IF err = "OK"
    THEN [Res("true", [cs EXCEPT ![friendNum].active = TRUE]) EXCEPT
              !.tx = <<Tx("toxav_answer", friendNum, err)>>,
              !.opts = BitrateRow(fps)]
    ELSE [Res("false", Erase(cs, friendNum)) EXCEPT
              !.tx = <<Tx("toxav_answer", friendNum, err),
                       Tx("toxav_call_control", friendNum, controlErr)>>]

AnswerCall(p, video, err, controlErr, fps) ==
    Ran("answerCall", p, <<>>, answerCall(calls, p, video, err, controlErr, fps))

(* cancelCall returning early, without asking the transport, when the
   registry holds no call *)
cancelCallOnlyKnown(cs, friendNum, err) ==
    IF friendNum \notin DOMAIN cs
    THEN Res("false", cs)
    ELSE IF ~PARSE_ERR(err)
    THEN [Res("false", cs) EXCEPT !.tx = <<Tx("toxav_call_control", friendNum, err)>>]
    ELSE [Res("true", Erase(cs, friendNum)) EXCEPT
              !.tx = <<Tx("toxav_call_control", friendNum, err)>>,
              !.ev = <<Ev("avEnd", friendNum, FALSE, "none")>>]

(* CoreAV::cancelCall, lines 668-694 *)
cancelCall(cs, friendNum, err) ==
    IF ~PARSE_ERR(err)
    THEN [Res("false", cs) EXCEPT !.tx = <<Tx("toxav_call_control", friendNum, err)>>]
    ELSE [Res("true", Erase(cs, friendNum)) EXCEPT
              !.tx = <<Tx("toxav_call_control", friendNum, err)>>,
              !.ev = <<Ev("avEnd", friendNum, FALSE, "none")>>]

CancelCall(p, err) ==
    Ran("cancelCall", p, <<>>, cancelCall(calls, p, err))

----------------------------------------------------------------------------
(* the retry loop of sendCallAudio with a loop condition that tests the error
   only, not the number of retries *)
RECURSIVE sendLoopUnbounded(_, _, _, _)
sendLoopUnbounded(callId, syncs, final, retries) ==
    LET err == IF syncs > 0 THEN "SYNC" ELSE final
    IN  <<Tx("toxav_audio_send_frame", callId, err)>> \o
        (IF err = "SYNC"
         THEN <<Tx("usleep", callId, "500")>>
              \o sendLoopUnbounded(callId, syncs - 1, final, retries + 1)
         ELSE <<>>)

(* the retry loop of sendCallAudio, lines 843-858: the transport answers SYNC
   `syncs` times and then `final`; after each SYNC answer the thread sleeps
   (QThread::usleep(500), line 849) *)
RECURSIVE sendLoop(_, _, _, _)
sendLoop(callId, syncs, final, retries) ==
    LET err == IF syncs > 0 THEN "SYNC" ELSE final
        retries2 == IF err = "SYNC" THEN retries + 1 ELSE retries
    IN  <<Tx("toxav_audio_send_frame", callId, err)>> \o
        (IF err = "SYNC" THEN <<Tx("usleep", callId, "500")>> ELSE <<>>) \o
        (IF err = "SYNC" /\ retries2 < MaxRetries
         THEN sendLoop(callId, syncs - 1, final, retries2)
         ELSE <<>>)

(* sendCallAudio reporting success for an unknown call *)
sendCallAudioUnknownTrue(cs, callId, chans, rate, echoCancellation, syncs, final) ==
    IF callId \notin DOMAIN cs
    THEN Res("true", cs)
    ELSE IF cs[callId].muteMic \/ ~cs[callId].active
            \/ "ACCEPTING_A" \notin cs[callId].state
    THEN Res("true", cs)
    ELSE [Res("true", cs) EXCEPT
              !.filt = (chans = 1 /\ rate = AUDIO_SAMPLE_RATE /\ echoCancellation),
              !.tx = sendLoop(callId, syncs, final, 0)]

(* sendCallAudio without the test of the peer's accepting-audio bit *)
sendCallAudioNoStateTest(cs, callId, chans, rate, echoCancellation, syncs, final) ==
    IF callId \notin DOMAIN cs
    THEN Res("false", cs)
    ELSE IF cs[callId].muteMic \/ ~cs[callId].active
    THEN Res("true", cs)
    ELSE [Res("true", cs) EXCEPT
              !.filt = (chans = 1 /\ rate = AUDIO_SAMPLE_RATE /\ echoCancellation),
              !.tx = sendLoop(callId, syncs, final, 0)]

(* CoreAV::sendCallAudio, lines 717-865 *)
sendCallAudio(cs, callId, chans, rate, echoCancellation, syncs, final) ==
    IF callId \notin DOMAIN cs
    THEN Res("false", cs)
    ELSE IF cs[callId].muteMic \/ ~cs[callId].active
            \/ "ACCEPTING_A" \notin cs[callId].state
    THEN Res("true", cs)
    ELSE [Res("true", cs) EXCEPT
              !.filt = (chans = 1 /\ rate = AUDIO_SAMPLE_RATE /\ echoCancellation),
              !.tx = sendLoop(callId, syncs, final, 0)]

SendCallAudio(p, chans, rate, echo, syncs, final) ==
    Ran("sendCallAudio", p, <<>>,
        sendCallAudio(calls, p, chans, rate, echo, syncs, final))

(* sendCallVideo without the test of the peer's accepting-video bit *)
sendCallVideoNoStateTest(cs, callId, bitrateErr, frameOk, err) ==
    IF callId \notin DOMAIN cs
    THEN Res("void", cs)
    ELSE IF ~cs[callId].videoEnabled \/ ~cs[callId].active
    THEN Res("void", cs)
    ELSE LET restart == cs[callId].nullVideoBitrate
             tx1 == IF restart
                    THEN <<Tx("toxav_video_set_bit_rate", callId, bitrateErr)>>
                    ELSE <<>>
             cs1 == IF restart
                    THEN [cs EXCEPT ![callId].nullVideoBitrate = FALSE]
                    ELSE cs
         IN  IF restart /\ ~PARSE_ERR(bitrateErr)
             THEN [Res("void", cs) EXCEPT !.tx = tx1]
             ELSE IF ~frameOk
             THEN [Res("void", cs1) EXCEPT !.tx = tx1]
             ELSE [Res("void", cs1) EXCEPT
                       !.tx = tx1 \o <<Tx("toxav_video_send_frame", callId, err)>>]

(* sendCallVideo sending the frame a second time when the transport answers
   SYNC *)
sendCallVideoRetry(cs, callId, bitrateErr, frameOk, err) ==
    IF callId \notin DOMAIN cs
    THEN Res("void", cs)
    ELSE IF ~cs[callId].videoEnabled \/ ~cs[callId].active
            \/ "ACCEPTING_V" \notin cs[callId].state
    THEN Res("void", cs)
    ELSE LET restart == cs[callId].nullVideoBitrate
             tx1 == IF restart
                    THEN <<Tx("toxav_video_set_bit_rate", callId, bitrateErr)>>
                    ELSE <<>>
             cs1 == IF restart
                    THEN [cs EXCEPT ![callId].nullVideoBitrate = FALSE]
                    ELSE cs
             send == <<Tx("toxav_video_send_frame", callId, err)>>
         IN  IF restart /\ ~PARSE_ERR(bitrateErr)
             THEN [Res("void", cs) EXCEPT !.tx = tx1]
             ELSE IF ~frameOk
             THEN [Res("void", cs1) EXCEPT !.tx = tx1]
             ELSE [Res("void", cs1) EXCEPT
                       !.tx = tx1 \o send \o (IF err = "SYNC" THEN send ELSE <<>>)]

(* CoreAV::sendCallVideo, lines 867-941 (the lock probe of lines 879-884
   succeeds when no other thread holds the write lock) *)
sendCallVideo(cs, callId, bitrateErr, frameOk, err) ==
    IF callId \notin DOMAIN cs
    THEN Res("void", cs)
    ELSE IF ~cs[callId].videoEnabled \/ ~cs[callId].active
            \/ "ACCEPTING_V" \notin cs[callId].state
    THEN Res("void", cs)
    ELSE LET restart == cs[callId].nullVideoBitrate
             tx1 == IF restart
                    THEN <<Tx("toxav_video_set_bit_rate", callId, bitrateErr)>>
                    ELSE <<>>
             cs1 == IF restart
                    THEN [cs EXCEPT ![callId].nullVideoBitrate = FALSE]
                    ELSE cs
         IN  IF restart /\ ~PARSE_ERR(bitrateErr)
             THEN [Res("void", cs) EXCEPT !.tx = tx1]
             ELSE IF ~frameOk
             THEN [Res("void", cs1) EXCEPT !.tx = tx1]
             ELSE [Res("void", cs1) EXCEPT
                       !.tx = tx1 \o <<Tx("toxav_video_send_frame", callId, err)>>]

SendCallVideo(p, bitrateErr, frameOk, err) ==
    Ran("sendCallVideo", p, <<>>, sendCallVideo(calls, p, bitrateErr, frameOk, err))

(* toggleMuteCallInput muting instead of toggling *)
toggleMuteCallInputSet(cs, f) ==
    IF f \in DOMAIN cs
    THEN Res("void", [cs EXCEPT ![f].muteMic = TRUE])
    ELSE Res("void", cs)

(* CoreAV::toggleMuteCallInput, lines 947-957 *)
toggleMuteCallInput(cs, f) ==
    IF f \in DOMAIN cs
    THEN Res("void", [cs EXCEPT ![f].muteMic = ~cs[f].muteMic])
    ELSE Res("void", cs)

ToggleMuteCallInput(p) ==
    Ran("toggleMuteCallInput", p, <<>>, toggleMuteCallInput(calls, p))

(* CoreAV::toggleMuteCallOutput, lines 963-973 *)
toggleMuteCallOutput(cs, f) ==
    IF f \in DOMAIN cs
    THEN Res("void", [cs EXCEPT ![f].muteVol = ~cs[f].muteVol])
    ELSE Res("void", cs)

ToggleMuteCallOutput(p) ==
    Ran("toggleMuteCallOutput", p, <<>>, toggleMuteCallOutput(calls, p))

(* the keys of a std::map in iteration order (ascending) *)
RECURSIVE KeysInOrder(_)
KeysInOrder(S) ==
    IF S = {} THEN <<>>
    ELSE LET m == CHOOSE x \in S : \A y \in S : x <= y
         IN  <<m>> \o KeysInOrder(S \ {m})

(* sendNoVideo marking every Call, whatever the transport answers *)
sendNoVideoAll(cs, errs) ==
    LET ks == KeysInOrder(DOMAIN cs)
    IN  [Res("void",
             [k \in DOMAIN cs |-> [cs[k] EXCEPT !.nullVideoBitrate = TRUE]]) EXCEPT
            !.tx = [i \in 1..Len(ks) |->
                        Tx("toxav_video_set_bit_rate", ks[i], errs[ks[i]])]]

(* CoreAV::sendNoVideo, lines 1254-1270; errs[k] is the transport's answer for k *)
sendNoVideo(cs, errs) ==
    LET ks == KeysInOrder(DOMAIN cs)
    IN  [Res("void",
             [k \in DOMAIN cs |->
                 IF PARSE_ERR(errs[k])
                 THEN [cs[k] EXCEPT !.nullVideoBitrate = TRUE]
                 ELSE cs[k]]) EXCEPT
            !.tx = [i \in 1..Len(ks) |->
                        Tx("toxav_video_set_bit_rate", ks[i], errs[ks[i]])]]

SendNoVideo(errs) ==
    Ran("sendNoVideo", 0, <<>>, sendNoVideo(calls, errs))

(* callCallback emitting avInvite without the locker.unlock() of line 1306 *)
callCallbackLocked(cs, au, friendNum, audioFlag, video, err) ==
    IF ~au
    THEN [Res("abort", cs) EXCEPT !.abort = TRUE]
    ELSE IF friendNum \in DOMAIN cs
    THEN [Res("void", cs) EXCEPT
              !.tx = <<Tx("toxav_call_control", friendNum, err)>>]
    ELSE LET state == (IF audioFlag THEN {"SENDING_A", "ACCEPTING_A"} ELSE {})
                      \cup (IF video THEN {"SENDING_V", "ACCEPTING_V"} ELSE {})
         IN  [Res("void", Emplace(cs, friendNum,
                                  [NewCall(video) EXCEPT !.state = state])) EXCEPT
                  !.ev = <<Ev("avInvite", friendNum, video, "write")>>]

(* callCallback taking the new invite in place of the Call the registry holds *)
callCallbackReplace(cs, au, friendNum, audioFlag, video, err) ==
    IF ~au
    THEN [Res("abort", cs) EXCEPT !.abort = TRUE]
    ELSE LET state == (IF audioFlag THEN {"SENDING_A", "ACCEPTING_A"} ELSE {})
                      \cup (IF video THEN {"SENDING_V", "ACCEPTING_V"} ELSE {})
         IN  [Res("void", Emplace(cs, friendNum,
                                  [NewCall(video) EXCEPT !.state = state])) EXCEPT
                  !.ev = <<Ev("avInvite", friendNum, video, "none")>>]

(* CoreAV::callCallback, lines 1272-1309 *)
callCallback(cs, au, friendNum, audioFlag, video, err) ==
    IF ~au
    THEN [Res("abort", cs) EXCEPT !.abort = TRUE]
    ELSE IF friendNum \in DOMAIN cs
    THEN [Res("void", cs) EXCEPT
              !.tx = <<Tx("toxav_call_control", friendNum, err)>>]
    ELSE LET state == (IF audioFlag THEN {"SENDING_A", "ACCEPTING_A"} ELSE {})
                      \cup (IF video THEN {"SENDING_V", "ACCEPTING_V"} ELSE {})
         IN  [Res("void", Emplace(cs, friendNum,
                                  [NewCall(video) EXCEPT !.state = state])) EXCEPT
                  !.ev = <<Ev("avInvite", friendNum, video, "none")>>]

CallCallback(p, audioFlag, video, err) ==
    Ran("callCallback", p, <<audioFlag, video>>,
        callCallback(calls, audio, p, audioFlag, video, err))

(* ToxFriendCall::getVideoSource() != nullptr *)
hasVideoSource(call) == call.videoEnabled

(* stateUpdate announcing the start with the peer's sending-video bit instead
   of the Call's video-enabled flag *)
stateUpdateFlagFromState(cs, friendNum, state) ==
    LET call == cs[friendNum]
    IN  IF call.state = {} /\ state # {}
        THEN [Res("void", [cs EXCEPT ![friendNum].active = TRUE,
                                     ![friendNum].state = state]) EXCEPT
                  !.ev = <<Ev("avStart", friendNum, "SENDING_V" \in state, "none")>>]
        ELSE IF "SENDING_V" \in call.state /\ "SENDING_V" \notin state
        THEN [Res("void", [cs EXCEPT ![friendNum].state = state]) EXCEPT
                  !.vs = IF hasVideoSource(call) THEN "stopSource" ELSE "none"]
        ELSE IF "SENDING_V" \notin call.state /\ "SENDING_V" \in state
        THEN [Res("void", [cs EXCEPT ![friendNum].state = state]) EXCEPT
                  !.vs = IF hasVideoSource(call) THEN "restartSource" ELSE "none"]
        ELSE Res("void", cs)

(* stateUpdate with pause and resume of the video source exchanged *)
stateUpdateSwapped(cs, friendNum, state) ==
    LET call == cs[friendNum]
    IN  IF call.state = {} /\ state # {}
        THEN [Res("void", [cs EXCEPT ![friendNum].active = TRUE,
                                     ![friendNum].state = state]) EXCEPT
                  !.ev = <<Ev("avStart", friendNum, call.videoEnabled, "none")>>]
        ELSE IF "SENDING_V" \in call.state /\ "SENDING_V" \notin state
        THEN [Res("void", [cs EXCEPT ![friendNum].state = state]) EXCEPT
                  !.vs = IF hasVideoSource(call) THEN "restartSource" ELSE "none"]
        ELSE IF "SENDING_V" \notin call.state /\ "SENDING_V" \in state
        THEN [Res("void", [cs EXCEPT ![friendNum].state = state]) EXCEPT
                  !.vs = IF hasVideoSource(call) THEN "stopSource" ELSE "none"]
        ELSE Res("void", cs)

(* CoreAV::stateCallback, lines 1341-1371: an update without terminal bit *)
stateUpdate(cs, friendNum, state) ==
    LET call == cs[friendNum]
    IN  IF call.state = {} /\ state # {}
        THEN [Res("void", [cs EXCEPT ![friendNum].active = TRUE,
                                     ![friendNum].state = state]) EXCEPT
                  !.ev = <<Ev("avStart", friendNum, call.videoEnabled, "none")>>]
        ELSE IF "SENDING_V" \in call.state /\ "SENDING_V" \notin state
        THEN [Res("void", [cs EXCEPT ![friendNum].state = state]) EXCEPT
                  !.vs = IF hasVideoSource(call) THEN "stopSource" ELSE "none"]
        ELSE IF "SENDING_V" \notin call.state /\ "SENDING_V" \in state
        THEN [Res("void", [cs EXCEPT ![friendNum].state = state]) EXCEPT
                  !.vs = IF hasVideoSource(call) THEN "restartSource" ELSE "none"]
        ELSE Res("void", cs)

(* stateCallback testing the finished bit before the error bit *)
stateCallbackFinishedFirst(cs, friendNum, state) ==
    IF friendNum \notin DOMAIN cs
    THEN Res("void", cs)
    ELSE IF "FINISHED" \in state
    THEN [Res("void", Erase(cs, friendNum)) EXCEPT
              !.ev = <<Ev("avEnd", friendNum, FALSE, "none")>>]
    ELSE IF "ERROR" \in state
    THEN [Res("void", Erase(cs, friendNum)) EXCEPT
              !.ev = <<Ev("avEnd", friendNum, TRUE, "none")>>]
    ELSE stateUpdate(cs, friendNum, state)

(* stateCallback treating a ringing Call's first update before the finished
   bit *)
stateCallbackStartFirst(cs, friendNum, state) ==
    IF friendNum \notin DOMAIN cs
    THEN Res("void", cs)
    ELSE IF "ERROR" \in state
    THEN [Res("void", Erase(cs, friendNum)) EXCEPT
              !.ev = <<Ev("avEnd", friendNum, TRUE, "none")>>]
    ELSE IF cs[friendNum].state = {}
    THEN stateUpdate(cs, friendNum, state)
    ELSE IF "FINISHED" \in state
    THEN [Res("void", Erase(cs, friendNum)) EXCEPT
              !.ev = <<Ev("avEnd", friendNum, FALSE, "none")>>]
    ELSE stateUpdate(cs, friendNum, state)

(* CoreAV::stateCallback, lines 1311-1375 *)
stateCallback(cs, friendNum, state) ==
    IF friendNum \notin DOMAIN cs
    THEN Res("void", cs)
    ELSE IF "ERROR" \in state
    THEN [Res("void", Erase(cs, friendNum)) EXCEPT
              !.ev = <<Ev("avEnd", friendNum, TRUE, "none")>>]
    ELSE IF "FINISHED" \in state
    THEN [Res("void", Erase(cs, friendNum)) EXCEPT
              !.ev = <<Ev("avEnd", friendNum, FALSE, "none")>>]
    ELSE stateUpdate(cs, friendNum, state)

(* what stateCallback reads of the mask: the handler tests the terminal bits
   first and, when one is set, reads no other bit *)
ReadOfMask(state) ==
    IF state \cap {"ERROR", "FINISHED"} # {}
    THEN state \cap {"ERROR", "FINISHED"}
    ELSE state

StateCallback(p, state) ==
    Ran("stateCallback", p, <<ReadOfMask(state)>>, stateCallback(calls, p, state))

----------------------------------------------------------------------------
(* An input that the handler reads only on some paths (an answer of the
   transport exists only when the transport is asked): S when it is read *)
ReadIf(cond, S) == IF cond THEN S ELSE {CHOOSE x \in S : TRUE}

(* for a peer without a Call stateCallback returns before it reads the mask:
   there only the terminal bits are varied *)
TerminalMasks == SUBSET {"ERROR", "FINISHED"}

(* The handlers are invoked by the UI and by the transport once the audio
   backend is set (setAudio "must be called before starting CoreAV", line 430) *)
Next ==
    \/ SetAudio
    \/ \E p \in Peers, video \in BOOLEAN :
       \E err \in ReadIf(p \notin DOMAIN calls, TxResults) :
       \E fps \in ReadIf(p \notin DOMAIN calls /\ err = "OK", FPSValues) :
          audio /\ StartCall(p, video, err, fps)
    \/ \E p \in Peers, video \in BOOLEAN :
       \E err \in ReadIf(p \in DOMAIN calls, TxResults) :
       \E controlErr \in ReadIf(p \in DOMAIN calls /\ err # "OK", TxResults) :
       \E fps \in ReadIf(p \in DOMAIN calls /\ err = "OK", FPSValues) :
          audio /\ AnswerCall(p, video, err, controlErr, fps)
    \/ \E p \in Peers, err \in TxResults : audio /\ CancelCall(p, err)
    \/ \E p \in Peers :
       LET sends == p \in DOMAIN calls IN
       \E chans \in ReadIf(sends, Channels), rate \in ReadIf(sends, Rates),
          echo \in ReadIf(sends, BOOLEAN), syncs \in ReadIf(sends, 0..MaxSyncs) :
       \E final \in ReadIf(sends /\ syncs < MaxRetries, TxResults) :
          audio /\ SendCallAudio(p, chans, rate, echo, syncs, final)
    \/ \E p \in Peers :
       LET sends == p \in DOMAIN calls IN
       \E bitrateErr \in ReadIf(sends /\ calls[p].nullVideoBitrate, TxResults) :
       \E frameOk \in ReadIf(sends /\ bitrateErr = "OK", BOOLEAN) :
       \E err \in ReadIf(sends /\ bitrateErr = "OK" /\ frameOk, SendResults) :
          audio /\ SendCallVideo(p, bitrateErr, frameOk, err)
    \/ \E p \in Peers : audio /\ ToggleMuteCallInput(p)
    \/ \E p \in Peers : audio /\ ToggleMuteCallOutput(p)
    \/ \E errs \in [DOMAIN calls -> TxResults] : audio /\ SendNoVideo(errs)
    \/ \E p \in Peers, audioFlag \in BOOLEAN, video \in BOOLEAN :
       \E err \in ReadIf(p \in DOMAIN calls, TxResults) :
          audio /\ CallCallback(p, audioFlag, video, err)
    \/ \E p \in Peers :
       \E state \in (IF p \in DOMAIN calls THEN StateMasks ELSE TerminalMasks) :
          audio /\ StateCallback(p, state)

Spec == Init /\ [][Next]_vars

----------------------------------------------------------------------------
(* Group calls, queries and mute commands.  An identifier is a Friend* or a
   Group* pointer: Null, or a pointer whose getId() is a key. *)

(* ToxGroupCall (toxcall.cpp): a new group call is inactive, unmuted and has
   no peer sources *)
NewGroupCall ==
    [active |-> FALSE, muteMic |-> FALSE, muteVol |-> FALSE, peers |-> {}]

BoolRet(b) == IF b THEN "true" ELSE "false"

(* outcome of a query or command: return value, both maps afterwards, whether
   a null pointer was dereferenced, whether an assertion failed *)
Out(ret, cs, gs) ==
    [ret |-> ret, calls |-> cs, groups |-> gs, deref |-> FALSE, abort |-> FALSE]

(* f->getId() / g->getId() on a null pointer is undefined: the program
   crashes, or goes on with whatever identifier it read *)
DerefNull(cs, gs, outs) ==
    {[Out("crash", cs, gs) EXCEPT !.deref = TRUE, !.abort = TRUE]}
    \cup {[o EXCEPT !.deref = TRUE] : o \in outs}

(* CoreAV::isCallStarted(const Friend* f), lines 498-505 *)
friendCallStarted(cs, gs, f) ==
    {Out(BoolRet(f # Null /\ f \in DOMAIN cs), cs, gs)}

(* CoreAV::isCallStarted(const Group* g), lines 512-519 *)
groupCallStarted(cs, gs, g) ==
    {Out(BoolRet(g # Null /\ g \in DOMAIN gs), cs, gs)}

(* CoreAV::isCallActive(const Friend* f), lines 526-538: calls.find(f->getId())
   comes first *)
friendCallActive(cs, gs, f) ==
    IF f = Null
    THEN DerefNull(cs, gs, {Out(BoolRet(isCallActive(cs, q)), cs, gs) : q \in Peers})
    ELSE {Out(BoolRet(isCallActive(cs, f)), cs, gs)}

(* CoreAV::isCallActive(const Group* g), lines 545-557 *)
groupCallActive(cs, gs, g) ==
    LET act(k) == IF k \notin DOMAIN gs THEN FALSE ELSE gs[k].active
    IN  IF g = Null
        THEN DerefNull(cs, gs, {Out(BoolRet(act(k)), cs, gs) : k \in Groups})
        ELSE {Out(BoolRet(act(g)), cs, gs)}

(* CoreAV::isCallVideoEnabled, lines 559-567 *)
isCallVideoEnabled(cs, gs, f) ==
    LET en(q) == isCallStarted(cs, q) /\ cs[q].videoEnabled
    IN  IF f = Null
        THEN DerefNull(cs, gs, {Out(BoolRet(en(q)), cs, gs) : q \in Peers})
        ELSE {Out(BoolRet(en(f)), cs, gs)}

(* CoreAV::isCallInputMuted, lines 1213-1227 *)
isCallInputMuted(cs, gs, f) ==
    IF f = Null THEN {Out("false", cs, gs)}
    ELSE {Out(BoolRet(f \in DOMAIN cs /\ cs[f].muteMic), cs, gs)}

(* CoreAV::isCallOutputMuted, lines 1234-1248 *)
isCallOutputMuted(cs, gs, f) ==
    IF f = Null THEN {Out("false", cs, gs)}
    ELSE {Out(BoolRet(f \in DOMAIN cs /\ cs[f].muteVol), cs, gs)}

(* CoreAV::isGroupCallInputMuted, lines 1169-1184 *)
isGroupCallInputMuted(cs, gs, g) ==
    IF g = Null THEN {Out("false", cs, gs)}
    ELSE {Out(BoolRet(g \in DOMAIN gs /\ gs[g].muteMic), cs, gs)}

(* CoreAV::isGroupCallOutputMuted, lines 1191-1206 *)
isGroupCallOutputMuted(cs, gs, g) ==
    IF g = Null THEN {Out("false", cs, gs)}
    ELSE {Out(BoolRet(g \in DOMAIN gs /\ gs[g].muteVol), cs, gs)}

(* CoreAV::toggleMuteCallInput / toggleMuteCallOutput called with any Friend*,
   lines 947-973: calls.find(f->getId()) comes before the test of f *)
toggleMuteCall(input, cs, gs, f) ==
    LET toggle(q) == IF input THEN toggleMuteCallInput(cs, q).calls
                     ELSE toggleMuteCallOutput(cs, q).calls
    IN  IF f = Null
        THEN DerefNull(cs, gs, {Out("void", toggle(q), gs) : q \in Peers})
        ELSE {Out("void", toggle(f), gs)}

(* CoreAV::muteCallInput(const Group* g, bool mute), lines 1137-1146 *)
muteCallInput(cs, gs, g, mute) ==
    LET set(k) == IF k \in DOMAIN gs THEN [gs EXCEPT ![k].muteMic = mute] ELSE gs
    IN  IF g = Null
        THEN DerefNull(cs, gs, {Out("void", cs, set(k)) : k \in Groups})
        ELSE {Out("void", cs, set(g))}

(* CoreAV::muteCallOutput(const Group* g, bool mute), lines 1153-1162 *)
muteCallOutput(cs, gs, g, mute) ==
    LET set(k) == IF k \in DOMAIN gs THEN [gs EXCEPT ![k].muteVol = mute] ELSE gs
    IN  IF g = Null
        THEN DerefNull(cs, gs, {Out("void", cs, set(k)) : k \in Groups})
        ELSE {Out("void", cs, set(g))}

(* joinGroupCall replacing the entry of a group that already has one *)
joinGroupCallReplace(cs, gs, au, g) ==
    IF ~au
    THEN {[Out("abort", cs, gs) EXCEPT !.abort = TRUE]}
    ELSE {Out("void", cs, Emplace(gs, g, [NewGroupCall EXCEPT !.active = TRUE]))}

(* CoreAV::joinGroupCall, lines 1071-1091 (const Group&: never null) *)
joinGroupCall(cs, gs, au, g) ==
    IF ~au
    THEN {[Out("abort", cs, gs) EXCEPT !.abort = TRUE]}
    ELSE IF g \in DOMAIN gs
    THEN {Out("void", cs, gs)}
    ELSE {Out("void", cs, Emplace(gs, g, [NewGroupCall EXCEPT !.active = TRUE]))}

(* CoreAV::leaveGroupCall, lines 1098-1106 *)
leaveGroupCall(cs, gs, groupNum) == {Out("void", cs, Erase(gs, groupNum))}

(* CoreAV::groupCallCallback, lines 987-1025: ToxGroupCall::playAudioBuffer
   creates the source of a peer it has not heard yet *)
groupCallCallback(cs, gs, group, peer) ==
    IF group \notin DOMAIN gs THEN {Out("void", cs, gs)}
    ELSE IF gs[group].muteVol \/ ~gs[group].active THEN {Out("void", cs, gs)}
    ELSE {Out("void", cs, [gs EXCEPT ![group].peers = @ \cup {peer}])}

(* CoreAV::invalidateGroupCallPeerSource, lines 1032-1042 *)
invalidateGroupCallPeerSource(cs, gs, group, peer) ==
    IF group \notin DOMAIN gs THEN {Out("void", cs, gs)}
    ELSE {Out("void", cs, [gs EXCEPT ![group].peers = @ \ {peer}])}

(* one of these ran, on identifier id, with outcome o *)
Called(op, id, o) ==
    /\ nops < MaxOps
    /\ ~aborted
    /\ last.op # "~CoreAV"
    /\ nops' = nops + 1
    /\ snap' = calls
    /\ gsnap' = groupCalls
    /\ calls' = o.calls
    /\ groupCalls' = o.groups
    /\ aborted' = o.abort
    /\ last' = [op |-> op, peer |-> id, arg |-> <<o.deref>>, ret |-> o.ret,
                tx |-> <<>>, ev |-> <<>>, opts |-> NoOpts, filt |-> FALSE,
                vs |-> "none"]
    /\ UNCHANGED <<audio, thr, callsLock, ext>>

FriendIds == Peers \cup {Null}
GroupIds == Groups \cup {Null}

----------------------------------------------------------------------------
(* Destruction.  Both loops of ~CoreAV erase from the map they iterate with a
   range-based for: once the element under the iterator is erased, advancing
   the iterator is undefined, and the loop goes on with the next key, ends, or
   the program crashes (ub). *)
UbOutcomes == {"next", "end", "crash"}

(* first loop, lines 451-453: cancelCall on each key reached *)
RECURSIVE cancelAll(_, _, _, _)
cancelAll(keys, cs, errs, ub) ==
    IF keys = <<>>
    THEN [calls |-> cs, tx |-> <<>>, ev |-> <<>>, crash |-> FALSE]
    ELSE LET k == Head(keys)
             o == cancelCall(cs, k, errs[k])
             erased == k \in DOMAIN cs /\ k \notin DOMAIN o.calls
             rest == IF erased /\ ub = "end" THEN <<>> ELSE Tail(keys)
             r == cancelAll(rest, o.calls, errs, ub)
         IN  IF erased /\ ub = "crash"
             THEN [calls |-> o.calls, tx |-> o.tx, ev |-> o.ev, crash |-> TRUE]
             ELSE [calls |-> r.calls, tx |-> o.tx \o r.tx, ev |-> o.ev \o r.ev,
                   crash |-> r.crash]

(* second loop, lines 454-456: leaveGroupCall on each key reached *)
RECURSIVE leaveAll(_, _, _)
leaveAll(keys, gs, ub) ==
    IF keys = <<>>
    THEN [groups |-> gs, crash |-> FALSE]
    ELSE LET g1 == Erase(gs, Head(keys))
         IN  IF ub = "crash" THEN [groups |-> g1, crash |-> TRUE]
             ELSE IF ub = "end" THEN [groups |-> g1, crash |-> FALSE]
             ELSE leaveAll(Tail(keys), g1, ub)

(* CoreAV::~CoreAV, lines 448-470: ret is "void" when the thread was stopped
   and joined, "abort" when an emptiness assertion failed *)
destroy(cs, gs, errs, ub) ==
    LET c == cancelAll(KeysInOrder(DOMAIN cs), cs, errs, ub)
        g == IF c.crash THEN [groups |-> gs, crash |-> TRUE]
             ELSE leaveAll(KeysInOrder(DOMAIN gs), gs, ub)
        ret == IF c.crash \/ g.crash THEN "crash"
               ELSE IF c.calls # << >> \/ g.groups # << >> THEN "abort"
               ELSE "void"
    IN  [ret |-> ret, calls |-> c.calls, groups |-> g.groups, tx |-> c.tx,
         ev |-> c.ev]

Destroy(errs, ub) ==
    LET o == destroy(calls, groupCalls, errs, ub)
    IN  /\ nops < MaxOps
        /\ ~aborted
        /\ last.op # "~CoreAV"
        /\ nops' = nops + 1
        /\ snap' = calls
        /\ gsnap' = groupCalls
        /\ calls' = o.calls
        /\ groupCalls' = o.groups
        /\ aborted' = (o.ret # "void")
        /\ last' = [op |-> "~CoreAV", peer |-> Null, arg |-> <<>>, ret |-> o.ret,
                    tx |-> o.tx, ev |-> o.ev, opts |-> NoOpts, filt |-> FALSE,
                    vs |-> "none"]
        /\ UNCHANGED <<audio, thr, callsLock, ext>>

----------------------------------------------------------------------------
(* The control interface as the UI and the transport may drive it: call
   set-up and tear-down, group calls, queries, mute commands and destruction,
   with or without an audio backend set. *)
NextApi ==
    \/ SetAudio
    \/ \E p \in Peers, video \in BOOLEAN :
       \E err \in ReadIf(p \notin DOMAIN calls, TxResults) :
       \E fps \in ReadIf(p \notin DOMAIN calls /\ err = "OK", FPSValues) :
          StartCall(p, video, err, fps)
    \/ \E p \in Peers, video \in BOOLEAN :
       \E err \in ReadIf(p \in DOMAIN calls, TxResults) :
       \E controlErr \in ReadIf(p \in DOMAIN calls /\ err # "OK", TxResults) :
       \E fps \in ReadIf(p \in DOMAIN calls /\ err = "OK", FPSValues) :
          AnswerCall(p, video, err, controlErr, fps)
    \/ \E p \in Peers, err \in TxResults : CancelCall(p, err)
    \/ \E p \in Peers, audioFlag \in BOOLEAN, video \in BOOLEAN :
       \E err \in ReadIf(p \in DOMAIN calls, TxResults) :
          CallCallback(p, audioFlag, video, err)
    \/ \E p \in Peers :
       \E state \in (IF p \in DOMAIN calls THEN StateMasks ELSE TerminalMasks) :
          StateCallback(p, state)
    \/ \E f \in FriendIds : \E o \in friendCallStarted(calls, groupCalls, f) :
          Called("isCallStarted", f, o)
    \/ \E g \in GroupIds : \E o \in groupCallStarted(calls, groupCalls, g) :
          Called("isCallStarted(Group)", g, o)
    \/ \E f \in FriendIds : \E o \in friendCallActive(calls, groupCalls, f) :
          Called("isCallActive", f, o)
    \/ \E g \in GroupIds : \E o \in groupCallActive(calls, groupCalls, g) :
          Called("isCallActive(Group)", g, o)
    \/ \E f \in FriendIds : \E o \in isCallVideoEnabled(calls, groupCalls, f) :
          Called("isCallVideoEnabled", f, o)
    \/ \E f \in FriendIds : \E o \in isCallInputMuted(calls, groupCalls, f) :
          Called("isCallInputMuted", f, o)
    \/ \E f \in FriendIds : \E o \in isCallOutputMuted(calls, groupCalls, f) :
          Called("isCallOutputMuted", f, o)
    \/ \E g \in GroupIds : \E o \in isGroupCallInputMuted(calls, groupCalls, g) :
          Called("isGroupCallInputMuted", g, o)
    \/ \E g \in GroupIds : \E o \in isGroupCallOutputMuted(calls, groupCalls, g) :
          Called("isGroupCallOutputMuted", g, o)
    \/ \E f \in FriendIds :
       \E o \in toggleMuteCall(TRUE, calls, groupCalls, f) :
          Called("toggleMuteCallInput", f, o)
    \/ \E f \in FriendIds :
       \E o \in toggleMuteCall(FALSE, calls, groupCalls, f) :
          Called("toggleMuteCallOutput", f, o)
    \/ \E g \in GroupIds, mute \in BOOLEAN :
       \E o \in muteCallInput(calls, groupCalls, g, mute) :
          Called("muteCallInput", g, o)
    \/ \E g \in GroupIds, mute \in BOOLEAN :
       \E o \in muteCallOutput(calls, groupCalls, g, mute) :
          Called("muteCallOutput", g, o)
    \/ \E g \in Groups : \E o \in joinGroupCall(calls, groupCalls, audio, g) :
          Called("joinGroupCall", g, o)
    \/ \E g \in Groups : \E o \in leaveGroupCall(calls, groupCalls, g) :
          Called("leaveGroupCall", g, o)
    \/ \E g \in Groups, peer \in Peers :
       \E o \in groupCallCallback(calls, groupCalls, g, peer) :
          Called("groupCallCallback", g, o)
    \/ \E g \in Groups, peer \in Peers :
       \E o \in invalidateGroupCallPeerSource(calls, groupCalls, g, peer) :
          Called("invalidateGroupCallPeerSource", g, o)
    \/ \E errs \in [DOMAIN calls -> TxResults], ub \in UbOutcomes :
          Destroy(errs, ub)

SpecApi == Init /\ [][NextApi]_vars

----------------------------------------------------------------------------
(* The handlers statement by statement, run by several threads under
   callsLock (a QReadWriteLock; whether it is constructed recursive is in
   coreav.h, so both modes are considered). *)

Idle == [pc |-> "idle", p |-> Null, caller |-> "none", err |-> "OK", cur |-> Null]

(* QReadWriteLock::lockForWrite returns: nobody else holds the lock, or the
   thread itself holds it for writing and the lock is recursive *)
CanLockForWrite(L, t) ==
    \/ L.w = "none" /\ \A u \in Threads : L.r[u] = 0
    \/ L.w = t /\ L.recursive
LockedForWrite(L, t) == [L EXCEPT !.w = t, !.n = @ + 1]
UnlockedWrite(L) ==
    IF L.n = 1 THEN [L EXCEPT !.w = "none", !.n = 0] ELSE [L EXCEPT !.n = @ - 1]
(* QReadWriteLock::lockForRead / tryLockForRead succeed: no writer *)
CanLockForRead(L, t) == L.w = "none"
LockedForRead(L, t) == [L EXCEPT !.r[t] = @ + 1]
UnlockedRead(L, t) == [L EXCEPT !.r[t] = @ - 1]

(* the mode in which thread t holds callsLock *)
Mode(t) ==
    IF callsLock.w = t THEN "write"
    ELSE IF callsLock.r[t] > 0 THEN "read" ELSE "none"

Quiet == <<audio, aborted, last, snap, groupCalls, gsnap, ext>>

At(t, pc) == thr[t].pc = pc
Goto(t, pc) == thr' = [thr EXCEPT ![t].pc = pc]
(* return from cancelCall to its caller *)
Return(t) ==
    thr' = [thr EXCEPT ![t].pc = IF thr[t].caller = "timeoutCall" THEN "tc_ret"
                                 ELSE IF thr[t].caller = "~CoreAV" THEN "d_iter"
                                 ELSE "idle"]

Handlers ==
    [t \in Threads |->
        IF t = "ui" THEN {"cc_lock", "tc_lock", "d_iter"}
        ELSE IF t = "av" THEN {"cb_lock", "st_lock", "f_find"}
        ELSE IF t = "video" THEN {"v_probe"}
        ELSE {"a_find"}]

(* thread t enters a handler with argument p *)
Enter(t, entry, p) ==
    /\ audio /\ nops < MaxOps
    /\ At(t, "idle") /\ ~At("ui", "destroyed")
    /\ entry \in Handlers[t]
    /\ thr' = [thr EXCEPT ![t] = [Idle EXCEPT !.pc = entry, !.p = p]]
    /\ nops' = nops + 1
    /\ UNCHANGED <<calls, callsLock, Quiet>>

(* CoreAV::cancelCall, lines 668-694 *)
CcLock(t) ==        \* line 671: QWriteLocker locker{&callsLock}
    /\ At(t, "cc_lock") /\ CanLockForWrite(callsLock, t)
    /\ callsLock' = LockedForWrite(callsLock, t)
    /\ Goto(t, "cc_unlock")
    /\ UNCHANGED <<calls, nops, Quiet>>
CcUnlock(t) ==      \* line 677: locker.unlock()
    /\ At(t, "cc_unlock")
    /\ callsLock' = UnlockedWrite(callsLock)
    /\ Goto(t, "cc_control")
    /\ UNCHANGED <<calls, nops, Quiet>>
CcControl(t, err) ==    \* line 679: toxav_call_control
    /\ At(t, "cc_control")
    /\ thr' = [thr EXCEPT ![t].pc = "cc_relock", ![t].err = err]
    /\ UNCHANGED <<calls, callsLock, nops, Quiet>>
CcRelock(t) ==      \* line 681: locker.relock()
    /\ At(t, "cc_relock") /\ CanLockForWrite(callsLock, t)
    /\ callsLock' = LockedForWrite(callsLock, t)
    /\ Goto(t, IF PARSE_ERR(thr[t].err) THEN "cc_erase" ELSE "cc_fail")
    /\ UNCHANGED <<calls, nops, Quiet>>
CcFail(t) ==        \* lines 683-686: return false, the locker unlocks
    /\ At(t, "cc_fail")
    /\ callsLock' = UnlockedWrite(callsLock)
    /\ Return(t)
    /\ UNCHANGED <<calls, nops, Quiet>>
CcErase(t) ==       \* line 688: calls.erase(friendNum)
    /\ At(t, "cc_erase")
    /\ calls' = Erase(calls, thr[t].p)
    /\ Goto(t, "cc_unlock2")
    /\ UNCHANGED <<callsLock, nops, Quiet>>
CcUnlock2(t) ==     \* line 690: locker.unlock()
    /\ At(t, "cc_unlock2")
    /\ callsLock' = UnlockedWrite(callsLock)
    /\ Goto(t, "cc_emit")
    /\ UNCHANGED <<calls, nops, Quiet>>
CcEmit(t) ==        \* lines 692-693: emit avEnd(friendNum); return true
    /\ At(t, "cc_emit")
    /\ Return(t)
    /\ UNCHANGED <<calls, callsLock, nops, Quiet>>

(* CoreAV::timeoutCall, lines 696-706 *)
TcLock(t) ==        \* line 699, then the call of cancelCall at line 701
    /\ At(t, "tc_lock") /\ CanLockForWrite(callsLock, t)
    /\ callsLock' = LockedForWrite(callsLock, t)
    /\ thr' = [thr EXCEPT ![t].pc = "cc_lock", ![t].caller = "timeoutCall"]
    /\ UNCHANGED <<calls, nops, Quiet>>
TcRet(t) ==         \* lines 701-706: cancelCall has returned, the locker unlocks
    /\ At(t, "tc_ret")
    /\ callsLock' = UnlockedWrite(callsLock)
    /\ thr' = [thr EXCEPT ![t] = Idle]
    /\ UNCHANGED <<calls, nops, Quiet>>

(* CoreAV::~CoreAV, lines 451-453: the loop reads calls and takes no lock; it
   is taken to go on with the next key when the element was erased *)
DIter(t) ==
    /\ At(t, "d_iter")
    /\ LET left == {k \in DOMAIN calls : k > thr[t].cur}
       IN  IF left = {}
           THEN thr' = [thr EXCEPT ![t] = [Idle EXCEPT !.pc = "destroyed"]]
           ELSE LET k == CHOOSE x \in left : \A y \in left : x <= y
                IN  thr' = [thr EXCEPT ![t].pc = "cc_lock", ![t].p = k,
                                       ![t].cur = k, ![t].caller = "~CoreAV"]
    /\ UNCHANGED <<calls, callsLock, nops, Quiet>>

(* CoreAV::callCallback, lines 1272-1309 *)
CbLock(t) ==        \* line 1277
    /\ At(t, "cb_lock") /\ CanLockForWrite(callsLock, t)
    /\ callsLock' = LockedForWrite(callsLock, t)
    /\ Goto(t, "cb_emplace")
    /\ UNCHANGED <<calls, nops, Quiet>>
CbEmplace(t, audioFlag, video, err) ==   \* lines 1287-1303
    /\ At(t, "cb_emplace")
    /\ LET o == callCallback(calls, audio, thr[t].p, audioFlag, video, err)
       IN  /\ calls' = o.calls
           /\ IF o.ev = <<>>
              THEN /\ callsLock' = UnlockedWrite(callsLock)   \* line 1293: return
                   /\ thr' = [thr EXCEPT ![t] = Idle]
              ELSE /\ Goto(t, "cb_unlock")
                   /\ UNCHANGED callsLock
    /\ UNCHANGED <<nops, Quiet>>
CbUnlock(t) ==      \* line 1306: locker.unlock()
    /\ At(t, "cb_unlock")
    /\ callsLock' = UnlockedWrite(callsLock)
    /\ Goto(t, "cb_emit")
    /\ UNCHANGED <<calls, nops, Quiet>>
CbEmit(t) ==        \* line 1308: emit avInvite
    /\ At(t, "cb_emit")
    /\ thr' = [thr EXCEPT ![t] = Idle]
    /\ UNCHANGED <<calls, callsLock, nops, Quiet>>

(* CoreAV::stateCallback, lines 1311-1375 *)
StLock(t) ==        \* line 1318
    /\ At(t, "st_lock") /\ CanLockForWrite(callsLock, t)
    /\ callsLock' = LockedForWrite(callsLock, t)
    /\ Goto(t, "st_find")
    /\ UNCHANGED <<calls, nops, Quiet>>
StFind(t, state) ==     \* lines 1320-1371: lookup and update, up to the unlock
    /\ At(t, "st_find")
    /\ LET o == stateCallback(calls, thr[t].p, state)
       IN  /\ calls' = o.calls
           /\ IF o.ev = <<>>
              THEN /\ callsLock' = UnlockedWrite(callsLock)   \* return
                   /\ thr' = [thr EXCEPT ![t] = Idle]
              ELSE /\ Goto(t, "st_unlock")
                   /\ UNCHANGED callsLock
    /\ UNCHANGED <<nops, Quiet>>
StUnlock(t) ==      \* lines 1332, 1338, 1348: locker.unlock()
    /\ At(t, "st_unlock")
    /\ callsLock' = UnlockedWrite(callsLock)
    /\ Goto(t, "st_emit")
    /\ UNCHANGED <<calls, nops, Quiet>>
StEmit(t) ==        \* lines 1333, 1339, 1349: emit avEnd / avStart
    /\ At(t, "st_emit")
    /\ thr' = [thr EXCEPT ![t] = Idle]
    /\ UNCHANGED <<calls, callsLock, nops, Quiet>>

(* CoreAV::audioFrameCallback, lines 1409-1427: calls.find and the read of the
   Call, the QReadLocker of line 1416 being commented out *)
FFind(t) ==
    /\ At(t, "f_find")
    /\ thr' = [thr EXCEPT ![t] = Idle]
    /\ UNCHANGED <<calls, callsLock, nops, Quiet>>

(* CoreAV::sendCallAudio, lines 742-754: calls.find and the reads of the Call,
   the lockers of lines 731-739 being commented out *)
AFind(t) ==
    /\ At(t, "a_find")
    /\ thr' = [thr EXCEPT ![t] = Idle]
    /\ UNCHANGED <<calls, callsLock, nops, Quiet>>

(* CoreAV::sendCallVideo, lines 879-941 *)
VProbe(t) ==        \* line 879: tryLockForRead
    /\ At(t, "v_probe")
    /\ IF CanLockForRead(callsLock, t)
       THEN /\ callsLock' = LockedForRead(callsLock, t)
            /\ Goto(t, "v_probe_unlock")
       ELSE /\ thr' = [thr EXCEPT ![t] = Idle]      \* line 881: return
            /\ UNCHANGED callsLock
    /\ UNCHANGED <<calls, nops, Quiet>>
VProbeUnlock(t) ==  \* line 883: callsLock.unlock()
    /\ At(t, "v_probe_unlock")
    /\ callsLock' = UnlockedRead(callsLock, t)
    /\ Goto(t, "v_lock")
    /\ UNCHANGED <<calls, nops, Quiet>>
VLock(t) ==         \* line 886: QReadLocker locker{&callsLock}
    /\ At(t, "v_lock") /\ CanLockForRead(callsLock, t)
    /\ callsLock' = LockedForRead(callsLock, t)
    /\ Goto(t, "v_find")
    /\ UNCHANGED <<calls, nops, Quiet>>
(* lines 890-935: lookup, gate, restore of the bitrate with the clearing of
   the Call's null-video-bitrate flag (line 913), send *)
VFind(t, bitrateErr, frameOk, err) ==
    /\ At(t, "v_find")
    /\ LET o == sendCallVideo(calls, thr[t].p, bitrateErr, frameOk, err)
       IN  /\ calls' = o.calls
           /\ snap' = calls /\ gsnap' = groupCalls
           /\ last' = [op |-> "sendCallVideo", peer |-> thr[t].p, arg |-> <<>>,
                       ret |-> o.ret, tx |-> o.tx, ev |-> o.ev, opts |-> o.opts,
                       filt |-> o.filt, vs |-> o.vs]
    /\ Goto(t, "v_unlock")
    /\ UNCHANGED <<callsLock, nops, audio, aborted, groupCalls, ext>>
VUnlock(t) ==       \* the locker unlocks at return
    /\ At(t, "v_unlock")
    /\ callsLock' = UnlockedRead(callsLock, t)
    /\ thr' = [thr EXCEPT ![t] = Idle]
    /\ UNCHANGED <<calls, nops, Quiet>>

InitLock ==
    /\ calls = << >> /\ snap = << >> /\ groupCalls = << >> /\ gsnap = << >>
    /\ audio = FALSE /\ aborted = FALSE /\ nops = 0
    /\ last = [op |-> "init", peer |-> 0, arg |-> <<>>, ret |-> "void", tx |-> <<>>,
               ev |-> <<>>, opts |-> NoOpts, filt |-> FALSE, vs |-> "none"]
    /\ InitExt
    /\ thr = [t \in Threads |-> Idle]
    /\ \E rec \in BOOLEAN :
          callsLock = [w |-> "none", n |-> 0, r |-> [t \in Threads |-> 0],
                       recursive |-> rec]

NextLock ==
    \/ SetAudio
    \/ \E t \in Threads : \E entry \in Handlers[t], p \in Peers : Enter(t, entry, p)
    \/ \E t \in Threads : CcLock(t)
    \/ \E t \in Threads : CcUnlock(t)
    \/ \E t \in Threads, err \in TxResults : CcControl(t, err)
    \/ \E t \in Threads : CcRelock(t)
    \/ \E t \in Threads : CcFail(t)
    \/ \E t \in Threads : CcErase(t)
    \/ \E t \in Threads : CcUnlock2(t)
    \/ \E t \in Threads : CcEmit(t)
    \/ \E t \in Threads : TcLock(t)
    \/ \E t \in Threads : TcRet(t)
    \/ \E t \in Threads : DIter(t)
    \/ \E t \in Threads : CbLock(t)
    \/ \E t \in Threads, audioFlag \in BOOLEAN, video \in BOOLEAN :
       \E err \in ReadIf(thr[t].p \in DOMAIN calls, TxResults) :
          CbEmplace(t, audioFlag, video, err)
    \/ \E t \in Threads : CbUnlock(t)
    \/ \E t \in Threads : CbEmit(t)
    \/ \E t \in Threads : StLock(t)
    \/ \E t \in Threads :
       \E state \in (IF thr[t].p \in DOMAIN calls THEN StateMasks ELSE TerminalMasks) :
          StFind(t, state)
    \/ \E t \in Threads : StUnlock(t)
    \/ \E t \in Threads : StEmit(t)
    \/ \E t \in Threads : FFind(t)
    \/ \E t \in Threads : AFind(t)
    \/ \E t \in Threads : VProbe(t)
    \/ \E t \in Threads : VProbeUnlock(t)
    \/ \E t \in Threads : VLock(t)
    \/ \E t \in Threads :
       LET sends == thr[t].p \in DOMAIN calls IN
       \E bitrateErr \in ReadIf(sends /\ calls[thr[t].p].nullVideoBitrate, TxResults) :
       \E frameOk \in ReadIf(sends /\ bitrateErr = "OK", BOOLEAN) :
       \E err \in ReadIf(sends /\ bitrateErr = "OK" /\ frameOk, SendResults) :
          VFind(t, bitrateErr, frameOk, err)
    \/ \E t \in Threads : VUnlock(t)

SpecLock == InitLock /\ [][NextLock]_vars

----------------------------------------------------------------------------
(* Bitrate policy.  The transport keeps the video encoder options of each
   peer; toxav_option_set replaces them, and the transport reports through the
   comm-info event what its own adaptation has put in force. *)

(* TOXAV_CALL_COMM_INFO values delivered to videoCommCallback *)
CommValues == {"ENCODER_CURRENT_BITRATE", "DECODER_CURRENT_BITRATE"}

(* CoreAV::videoCommCallback, lines 1503-1524 *)
videoCommCallback(cs, friend_number, comm_value, fps) ==
    IF comm_value = "ENCODER_CURRENT_BITRATE"
    THEN [Res("void", cs) EXCEPT !.opts = BitrateRow(fps)]
    ELSE Res("void", cs)

(* the three toxav_option_set calls of a row; no row, no call *)
Applied(e, p, opts) == IF opts = NoOpts THEN e ELSE [e EXCEPT ![p] = opts]

(* a handler ran with result o while the encoder options were e *)
PolicyRan(op, p, arg, o, e) ==
    /\ Did(op, p, arg, o)
    /\ enc' = Applied(e, p, o.opts)
    /\ UNCHANGED <<audioSettings, coreavThread, iterateTimer, aec_mutex, dsp, frame, more>>

PolicyStartCall(p, video, err) ==
    PolicyRan("startCall", p, <<>>,
              startCall(calls, audio, p, video, err, audioSettings.screenVideoFPS),
              enc)

PolicyAnswerCall(p, video, err, controlErr) ==
    PolicyRan("answerCall", p, <<>>,
              answerCall(calls, p, video, err, controlErr,
                         audioSettings.screenVideoFPS),
              enc)

(* the transport reports comm_value for p; when adapted, its own adaptation
   has replaced the encoder options before the event is delivered *)
VideoCommCallback(p, comm_value, adapted) ==
    PolicyRan("videoCommCallback", p, <<comm_value>>,
              videoCommCallback(calls, p, comm_value, audioSettings.screenVideoFPS),
              IF adapted THEN [enc EXCEPT ![p] = TransportDefault] ELSE enc)

(* the user changes a value in the settings; the handlers read it live *)
Configured(field, v) ==
    /\ ~aborted
    /\ audioSettings[field] # v
    /\ audioSettings' = [audioSettings EXCEPT ![field] = v]
    /\ last' = [op |-> "settings", peer |-> Null, arg |-> <<field, v>>,
                ret |-> "void", tx |-> <<>>, ev |-> <<>>, opts |-> NoOpts,
                filt |-> FALSE, vs |-> "none"]
    /\ snap' = calls /\ gsnap' = groupCalls

SetScreenVideoFPS(v) ==
    /\ Configured("screenVideoFPS", v)
    /\ UNCHANGED <<calls, audio, aborted, nops, groupCalls, thr, callsLock, enc,
                   coreavThread, iterateTimer, aec_mutex, dsp, frame, more>>

InitPolicy ==
    /\ InitRegistry
    /\ \E v \in FPSValues :
          audioSettings = [DefaultSettings EXCEPT !.screenVideoFPS = v]
    /\ enc = [p \in Peers |-> TransportDefault]
    /\ coreavThread = "new"
    /\ iterateTimer = [active |-> FALSE, interval |-> 0, pending |-> FALSE]
    /\ aec_mutex = "none"
    /\ dsp = Constructed(audioSettings, FreshStatics)
    /\ frame = NoFrame
    /\ InitMore

NextPolicy ==
    \/ SetAudio
    \/ \E v \in FPSValues : SetScreenVideoFPS(v)
    \/ \E p \in Peers, video \in BOOLEAN :
       \E err \in ReadIf(p \notin DOMAIN calls, TxResults) :
          audio /\ PolicyStartCall(p, video, err)
    \/ \E p \in Peers, video \in BOOLEAN :
       \E err \in ReadIf(p \in DOMAIN calls, TxResults) :
       \E controlErr \in ReadIf(p \in DOMAIN calls /\ err # "OK", TxResults) :
          audio /\ PolicyAnswerCall(p, video, err, controlErr)
    \/ \E p \in DOMAIN calls, comm_value \in CommValues, adapted \in BOOLEAN :
          VideoCommCallback(p, comm_value, adapted)
    \/ \E p \in Peers, audioFlag \in BOOLEAN, video \in BOOLEAN :
       \E err \in ReadIf(p \in DOMAIN calls, TxResults) :
          audio /\ CallCallback(p, audioFlag, video, err)
    \/ \E p \in Peers, err \in TxResults : audio /\ CancelCall(p, err)

SpecPolicy == InitPolicy /\ [][NextPolicy]_vars

----------------------------------------------------------------------------
(* The iteration loop.  process() is a slot of the CoreAV object, which lives
   in coreavThread: QThread::started and QTimer::timeout queue one invocation
   of it (iterateTimer.pending) in the event loop of that thread.  The timer
   is single-shot: it is armed by start() and disarmed when it fires. *)

(* answers of toxav_iteration_interval, in ms *)
Intervals == {0, 5, 6, 20}

(* process re-arming the timer only while the registry holds a call *)
processIdleStops(cs, interval) ==
    [tx |-> <<Tx("toxav_iterate", Null, "OK"),
              Tx("toxav_iteration_interval", Null, interval)>>,
     start |-> IF cs = << >> THEN <<>>
               ELSE <<IF interval <= 5 THEN 10 ELSE interval>>]

(* CoreAV::process, lines 480-491: the transport calls it makes and the
   iterateTimer->start(interval) calls it makes; it does not look at cs *)
process(cs, interval) ==
    [tx |-> <<Tx("toxav_iterate", Null, "OK"),
              Tx("toxav_iteration_interval", Null, interval)>>,
     start |-> <<IF interval <= 5 THEN 10 ELSE interval>>]

IterQuiet == <<calls, audio, aborted, nops, groupCalls, thr, callsLock,
               audioSettings, enc, aec_mutex, dsp, frame, more>>

(* CoreAV::start, lines 475-478; started is connected to process (line 382) *)
Start ==
    /\ coreavThread = "new"
    /\ coreavThread' = "running"
    /\ iterateTimer' = [iterateTimer EXCEPT !.pending = TRUE]
    /\ UNCHANGED <<last, snap, gsnap, IterQuiet>>

(* the armed timer fires: timeout is connected to process (line 380) *)
Timeout ==
    /\ coreavThread = "running"
    /\ iterateTimer.active
    /\ iterateTimer' = [iterateTimer EXCEPT !.active = FALSE, !.pending = TRUE]
    /\ UNCHANGED <<coreavThread, last, snap, gsnap, IterQuiet>>

(* the event loop of coreavThread delivers the queued invocation *)
Process(interval) ==
    LET o == process(calls, interval)
    IN  /\ coreavThread = "running"
        /\ iterateTimer.pending
        /\ iterateTimer' = IF o.start = <<>>
                           THEN [iterateTimer EXCEPT !.pending = FALSE]
                           ELSE [active |-> TRUE, interval |-> o.start[Len(o.start)],
                                 pending |-> FALSE]
        /\ last' = [op |-> "process", peer |-> Null, arg |-> o.start,
                    ret |-> "void", tx |-> o.tx, ev |-> <<>>, opts |-> NoOpts,
                    filt |-> FALSE, vs |-> "none"]
        /\ snap' = calls /\ gsnap' = groupCalls
        /\ UNCHANGED <<coreavThread, IterQuiet>>

(* CoreAV::~CoreAV, lines 461-462: coreavThread->exit(0) and wait(); finished
   is connected to iterateTimer->stop() (line 381) *)
Stop ==
    /\ coreavThread = "running"
    /\ coreavThread' = "finished"
    /\ iterateTimer' = [iterateTimer EXCEPT !.active = FALSE]
    /\ UNCHANGED <<last, snap, gsnap, IterQuiet>>

Iterates == \E interval \in Intervals : Process(interval)

NextIter ==
    \/ SetAudio
    \/ Start
    \/ Timeout
    \/ Iterates
    \/ Stop
    \/ \E p \in Peers, audioFlag \in BOOLEAN, video \in BOOLEAN :
       \E err \in ReadIf(p \in DOMAIN calls, TxResults) :
          audio /\ CallCallback(p, audioFlag, video, err)
    \/ \E p \in Peers, err \in TxResults : audio /\ CancelCall(p, err)

(* a running event loop delivers an armed timer's timeout and a queued slot *)
SpecIter ==
    Init /\ [][NextIter]_vars /\ WF_vars(Timeout) /\ WF_vars(Iterates)

----------------------------------------------------------------------------
(* The resamplers.  A buffer is modelled by the number of samples it holds
   and the number of samples written to it. *)

Min(a, b) == IF a <= b THEN a ELSE b

(* ma_resampler_process_pcm_frames of miniaudio on a resampler configured
   from inRate to outRate: the number of frames it writes, given the number
   of input frames and the capacity of the output *)
ma_resampler_process_pcm_frames(inRate, outRate, frameCountIn, frameCountOut) ==
    Min(frameCountOut, (frameCountIn * outRate) \div inRate)

(* downsample accepting any positive number of samples *)
downsampleGuardOne(sample_count) ==
    IF sample_count < 1
    THEN [ret |-> -1, written |-> 0]
    ELSE [ret |-> 0,
          written |-> ma_resampler_process_pcm_frames(
                          AUDIO_SAMPLE_RATE, 16000, sample_count, sample_count \div 3)]

(* CoreAV::downsample_48000_to_16000_basic, lines 1564-1588 *)
downsample_48000_to_16000_basic(sample_count) ==
    IF sample_count < 3
    THEN [ret |-> -1, written |-> 0]
    ELSE [ret |-> 0,
          written |-> ma_resampler_process_pcm_frames(
                          AUDIO_SAMPLE_RATE, 16000, sample_count, sample_count \div 3)]

(* upsample asking for two output samples per input sample *)
upsampleDouble(sample_count) ==
    IF sample_count < 1
    THEN [ret |-> -1, written |-> 0]
    ELSE [ret |-> 0,
          written |-> ma_resampler_process_pcm_frames(
                          16000, AUDIO_SAMPLE_RATE, sample_count, sample_count * 2)]

(* CoreAV::upsample_16000_to_48000_basic, lines 1526-1562 *)
upsample_16000_to_48000_basic(sample_count) ==
    IF sample_count < 1
    THEN [ret |-> -1, written |-> 0]
    ELSE [ret |-> 0,
          written |-> ma_resampler_process_pcm_frames(
                          16000, AUDIO_SAMPLE_RATE, sample_count, sample_count * 3)]

ResampleQuiet == <<calls, audio, aborted, last, snap, nops, groupCalls, gsnap, thr,
                   callsLock, audioSettings, enc, coreavThread, iterateTimer,
                   aec_mutex, dsp, more>>

(* a buffer of frame.n samples is downsampled *)
Downsample ==
    LET o == downsample_48000_to_16000_basic(frame.n)
    IN  /\ frame.op = "none"
        /\ frame' = [frame EXCEPT !.op = "down", !.ret = o.ret, !.written = o.written]
        /\ UNCHANGED ResampleQuiet

(* a buffer of frame.n samples is upsampled *)
Upsample ==
    LET o == upsample_16000_to_48000_basic(frame.n)
    IN  /\ frame.op = "none"
        /\ frame' = [frame EXCEPT !.op = "up", !.ret = o.ret, !.written = o.written]
        /\ UNCHANGED ResampleQuiet

(* what a downsample has produced is upsampled again, as in the filter
   pipeline of sendCallAudio (lines 804 and 834) *)
UpsampleBack ==
    LET o == upsample_16000_to_48000_basic(frame.written)
    IN  /\ frame.op = "down"
        /\ frame' = [frame EXCEPT !.op = "downup", !.ret = o.ret,
                                  !.mid = frame.written, !.written = o.written]
        /\ UNCHANGED ResampleQuiet

InitResample ==
    /\ InitRegistry
    /\ audioSettings = DefaultSettings
    /\ enc = [p \in Peers |-> TransportDefault]
    /\ coreavThread = "new"
    /\ iterateTimer = [active |-> FALSE, interval |-> 0, pending |-> FALSE]
    /\ aec_mutex = "none"
    /\ dsp = Constructed(DefaultSettings, FreshStatics)
    /\ \E n \in -1..MaxSamples : frame = [NoFrame EXCEPT !.n = n]
    /\ InitMore

NextResample == Downsample \/ Upsample \/ UpsampleBack

SpecResample == InitResample /\ [][NextResample]_vars

----------------------------------------------------------------------------
(* Configuration of the filter pipeline.  The echo canceller takes an
   AecmConfig {cngMode, echoMode}, the noise suppressor a policy; the settings
   hold an echo mode and a noise-suppression mode. *)

(* getAecechomode() / getAecechonsmode() *)
Modes == 0..MaxMode
AecmTrue == 1

(* CoreAV::sendCallAudio, lines 756-788: a frame enters the filter pipeline;
   the modes are handed to the engines when they differ from the remembered
   ones *)
Reconfigured(d, settings) ==
    LET newEcho == settings.aecechomode # d.current_aec_echo_mode
        newNs == settings.aecechonsmode # d.current_aec_ns_echo_mode
    IN  [d EXCEPT !.current_aec_echo_mode = settings.aecechomode,
                  !.echoMode = IF newEcho THEN AecmTrue ELSE d.echoMode,
                  !.cngMode = IF newEcho THEN settings.aecechomode ELSE d.cngMode,
                  !.current_aec_ns_echo_mode = settings.aecechonsmode,
                  !.nsPolicy = IF newNs THEN settings.aecechonsmode ELSE d.nsPolicy]

CfgQuiet == <<enc, coreavThread, iterateTimer, aec_mutex, frame, more>>

CfgSendCallAudio(p, chans, rate, syncs, final) ==
    LET o == sendCallAudio(calls, p, chans, rate, audioSettings.echoCancellation,
                           syncs, final)
    IN  /\ Did("sendCallAudio", p, <<>>, o)
        /\ dsp' = IF o.filt THEN Reconfigured(dsp, audioSettings) ELSE dsp
        /\ UNCHANGED <<audioSettings, CfgQuiet>>

SetAecechomode(v) ==
    /\ Configured("aecechomode", v)
    /\ UNCHANGED <<calls, audio, aborted, nops, groupCalls, thr, callsLock, dsp,
                   CfgQuiet>>

SetAecechonsmode(v) ==
    /\ Configured("aecechonsmode", v)
    /\ UNCHANGED <<calls, audio, aborted, nops, groupCalls, thr, callsLock, dsp,
                   CfgQuiet>>

SetEchoCancellation(v) ==
    /\ Configured("echoCancellation", v)
    /\ UNCHANGED <<calls, audio, aborted, nops, groupCalls, thr, callsLock, dsp,
                   CfgQuiet>>

(* the Orchestrator is destroyed and a new one is made in the same process:
   the registry and the audio backend are the new object's, the engines are
   created and configured again, the function-static values stay *)
Restart ==
    /\ nops < MaxOps
    /\ ~aborted
    /\ calls = << >>
    /\ nops' = nops + 1
    /\ audio' = FALSE
    /\ dsp' = Constructed(audioSettings, dsp)
    /\ last' = [op |-> "restart", peer |-> Null, arg |-> <<>>, ret |-> "void",
                tx |-> <<>>, ev |-> <<>>, opts |-> NoOpts, filt |-> FALSE,
                vs |-> "none"]
    /\ snap' = calls /\ gsnap' = groupCalls
    /\ UNCHANGED <<calls, aborted, groupCalls, thr, callsLock, audioSettings,
                   CfgQuiet>>

InitCfg ==
    /\ InitRegistry
    /\ \E e \in Modes, n \in Modes, c \in BOOLEAN :
          audioSettings = [DefaultSettings EXCEPT !.aecechomode = e,
                                                  !.aecechonsmode = n,
                                                  !.echoCancellation = c]
    /\ enc = [p \in Peers |-> TransportDefault]
    /\ coreavThread = "new"
    /\ iterateTimer = [active |-> FALSE, interval |-> 0, pending |-> FALSE]
    /\ aec_mutex = "none"
    /\ dsp = Constructed(audioSettings, FreshStatics)
    /\ frame = NoFrame
    /\ InitMore

NextCfg ==
    \/ SetAudio
    \/ \E v \in Modes : SetAecechomode(v)
    \/ \E v \in Modes : SetAecechonsmode(v)
    \/ \E v \in BOOLEAN : SetEchoCancellation(v)
    \/ Restart
    \/ \E p \in Peers, audioFlag \in BOOLEAN, video \in BOOLEAN :
       \E err \in ReadIf(p \in DOMAIN calls, TxResults) :
          audio /\ CallCallback(p, audioFlag, video, err)
    \/ \E p \in Peers, video \in BOOLEAN :
       \E err \in ReadIf(p \in DOMAIN calls, TxResults) :
       \E controlErr \in ReadIf(p \in DOMAIN calls /\ err # "OK", TxResults) :
       \E fps \in ReadIf(p \in DOMAIN calls /\ err = "OK", FPSValues) :
          audio /\ AnswerCall(p, video, err, controlErr, fps)
    \/ \E p \in Peers :
       LET sends == p \in DOMAIN calls IN
       \E chans \in ReadIf(sends, Channels), rate \in ReadIf(sends, Rates),
          syncs \in ReadIf(sends, {0, MaxRetries}) :
       \E final \in ReadIf(sends /\ syncs < MaxRetries, TxResults) :
          audio /\ CfgSendCallAudio(p, chans, rate, syncs, final)

SpecCfg == InitCfg /\ [][NextCfg]_vars

----------------------------------------------------------------------------
(* The filter pipeline at the level of threads.  The send path
   (sendCallAudio, on the audio capture thread) and the receive path
   (audioFrameCallback, on the iteration thread) run statement by statement;
   a thread at a statement is executing that statement's access.  A frame is
   cut in MaxChunks chunks of 10 ms. *)

DspQuiet == <<calls, audio, aborted, last, snap, nops, groupCalls, gsnap, callsLock,
              audioSettings, enc, coreavThread, iterateTimer, frame, more>>

(* the process-wide instance a thread is accessing where it stands *)
Using(t) ==
    LET pc == thr[t].pc
    IN  IF pc = "s_aec_cfg"
        THEN (IF audioSettings.aecechomode # dsp.current_aec_echo_mode
              THEN "webrtc_aecmInst" ELSE "none")
        ELSE IF pc = "s_ns_cfg"
        THEN (IF audioSettings.aecechonsmode # dsp.current_aec_ns_echo_mode
              THEN "nsxInst" ELSE "none")
        ELSE IF pc \in {"s_down", "r_down"} THEN "miniaudio_downsample_resampler"
        ELSE IF pc = "s_ns" THEN "nsxInst"
        ELSE IF pc \in {"s_aec", "r_far"} THEN "webrtc_aecmInst"
        ELSE IF pc = "s_up" THEN "miniaudio_upsample_resampler"
        ELSE "none"

(* CoreAV::sendCallAudio, lines 742-762: the frame passes the gate and is
   mono, at the native rate, with echo cancellation enabled *)
SEnter(t, p) ==
    /\ t = "audio" /\ At(t, "idle")
    /\ sendCallAudio(calls, p, 1, AUDIO_SAMPLE_RATE,
                     audioSettings.echoCancellation, 0, "OK").filt
    /\ thr' = [thr EXCEPT ![t] = [Idle EXCEPT !.pc = "s_aec_cfg", !.p = p, !.cur = 0]]
    /\ UNCHANGED <<aec_mutex, dsp, DspQuiet>>

SAecCfg(t) ==       \* lines 770-780: WebRtcAecm_set_config when the mode changed
    /\ At(t, "s_aec_cfg")
    /\ dsp' = Reconfigured(dsp, [audioSettings EXCEPT
                                     !.aecechonsmode = dsp.current_aec_ns_echo_mode])
    /\ Goto(t, "s_ns_cfg")
    /\ UNCHANGED <<aec_mutex, DspQuiet>>

SNsCfg(t) ==        \* lines 782-788: WebRtcNsx_set_policy when the mode changed
    /\ At(t, "s_ns_cfg")
    /\ dsp' = Reconfigured(dsp, [audioSettings EXCEPT
                                     !.aecechomode = dsp.current_aec_echo_mode])
    /\ Goto(t, "s_down")
    /\ UNCHANGED <<aec_mutex, DspQuiet>>

SDown(t) ==         \* line 804: downsample_48000_to_16000_basic
    /\ At(t, "s_down")
    /\ Goto(t, "s_ns")
    /\ UNCHANGED <<aec_mutex, dsp, DspQuiet>>

SNs(t) ==           \* line 814: WebRtcNsx_Process
    /\ At(t, "s_ns")
    /\ Goto(t, "s_lock")
    /\ UNCHANGED <<aec_mutex, dsp, DspQuiet>>

SLock(t) ==         \* line 819: aec_mutex.lock()
    /\ At(t, "s_lock") /\ aec_mutex = "none"
    /\ aec_mutex' = t
    /\ Goto(t, "s_aec")
    /\ UNCHANGED <<dsp, DspQuiet>>

SAec(t) ==          \* line 820: WebRtcAecm_Process
    /\ At(t, "s_aec")
    /\ Goto(t, "s_unlock")
    /\ UNCHANGED <<aec_mutex, dsp, DspQuiet>>

SUnlock(t) ==       \* line 828: aec_mutex.unlock(), then the next chunk
    /\ At(t, "s_unlock")
    /\ aec_mutex' = "none"
    /\ thr' = [thr EXCEPT ![t].cur = thr[t].cur + 1,
                          ![t].pc = IF thr[t].cur + 1 < MaxChunks THEN "s_ns"
                                    ELSE "s_up"]
    /\ UNCHANGED <<dsp, DspQuiet>>

SUp(t) ==           \* line 834: upsample_16000_to_48000_basic
    /\ At(t, "s_up")
    /\ thr' = [thr EXCEPT ![t] = Idle]
    /\ UNCHANGED <<aec_mutex, dsp, DspQuiet>>

(* CoreAV::audioFrameCallback, lines 1418-1439: the Call exists, its volume
   is not muted, the frame is mono, native rate, 40 or 60 ms, and echo
   cancellation is enabled *)
REnter(t, p) ==
    /\ t = "av" /\ At(t, "idle")
    /\ p \in DOMAIN calls /\ ~calls[p].muteVol
    /\ audioSettings.echoCancellation
    /\ thr' = [thr EXCEPT ![t] = [Idle EXCEPT !.pc = "r_down", !.p = p, !.cur = 0]]
    /\ UNCHANGED <<aec_mutex, dsp, DspQuiet>>

RDown(t) ==         \* line 1443: downsample_48000_to_16000_basic
    /\ At(t, "r_down")
    /\ Goto(t, "r_lock")
    /\ UNCHANGED <<aec_mutex, dsp, DspQuiet>>

RLock(t) ==         \* line 1451: aec_mutex.lock()
    /\ At(t, "r_lock") /\ aec_mutex = "none"
    /\ aec_mutex' = t
    /\ Goto(t, "r_far")
    /\ UNCHANGED <<dsp, DspQuiet>>

RFar(t) ==          \* line 1452: WebRtcAecm_BufferFarend
    /\ At(t, "r_far")
    /\ Goto(t, "r_unlock")
    /\ UNCHANGED <<aec_mutex, dsp, DspQuiet>>

RUnlock(t) ==       \* line 1457: aec_mutex.unlock(), then the next chunk
    /\ At(t, "r_unlock")
    /\ aec_mutex' = "none"
    /\ thr' = [thr EXCEPT ![t] = IF thr[t].cur + 1 < MaxChunks
                                 THEN [thr[t] EXCEPT !.cur = thr[t].cur + 1,
                                                     !.pc = "r_lock"]
                                 ELSE Idle]
    /\ UNCHANGED <<dsp, DspQuiet>>

NextDsp ==
    \/ SetAudio
    \/ \E p \in Peers, audioFlag \in BOOLEAN :
       \E err \in ReadIf(p \in DOMAIN calls, TxResults) :
          audio /\ CallCallback(p, audioFlag, FALSE, err)
    \/ \E p \in Peers :
       \E err \in ReadIf(p \in DOMAIN calls, TxResults) :
       \E controlErr \in ReadIf(p \in DOMAIN calls /\ err # "OK", TxResults) :
          audio /\ AnswerCall(p, FALSE, err, controlErr, 20)
    \/ \E t \in Threads, p \in Peers : SEnter(t, p)
    \/ \E t \in Threads : SAecCfg(t)
    \/ \E t \in Threads : SNsCfg(t)
    \/ \E t \in Threads : SDown(t)
    \/ \E t \in Threads : SNs(t)
    \/ \E t \in Threads : SLock(t)
    \/ \E t \in Threads : SAec(t)
    \/ \E t \in Threads : SUnlock(t)
    \/ \E t \in Threads : SUp(t)
    \/ \E t \in Threads, p \in Peers : REnter(t, p)
    \/ \E t \in Threads : RDown(t)
    \/ \E t \in Threads : RLock(t)
    \/ \E t \in Threads : RFar(t)
    \/ \E t \in Threads : RUnlock(t)

SpecDsp == InitCfg /\ [][NextDsp]_vars

----------------------------------------------------------------------------
(* The signals as the UI sees them.  avInvite, avStart and avEnd are emitted
   on the iteration thread and queued to the UI thread.  The UI shows an
   invite it has received, answers it with answerCall while it shows it, and
   takes it down when it processes the end. *)

(* the number of signals sig for peer p among ev *)
Count(ev, sig, p) == Len(SelectSeq(ev, LAMBDA e : e.sig = sig /\ e.p = p))

(* what the UI has been told once a handler with result o has run on the
   registry cs *)
Told(n, cs, o) ==
    [p \in Peers |->
        [invited |-> n[p].invited \/ Count(o.ev, "avInvite", p) > 0,
         ended |-> n[p].ended \/ Count(o.ev, "avEnd", p) > 0,
         started |-> IF p \notin DOMAIN cs /\ p \in DOMAIN o.calls THEN 0
                     ELSE n[p].started + Count(o.ev, "avStart", p)]]

(* a handler ran with result o, the UI having been told n before *)
NotifyRan(op, p, arg, o, n) ==
    /\ Did(op, p, arg, o)
    /\ notified' = Told(n, calls, o)
    /\ UNCHANGED <<audioSettings, enc, coreavThread, iterateTimer, aec_mutex, dsp,
                   frame, fileInfos, db>>

(* the user accepts the invite of p that the UI shows *)
UiAnswerCall(p, video, err, controlErr, fps) ==
    /\ notified[p].invited
    /\ NotifyRan("answerCall", p, <<>>,
                 answerCall(calls, p, video, err, controlErr, fps),
                 [notified EXCEPT ![p].invited = FALSE])

(* the UI thread processes the queued avEnd of p *)
UiEnded(p) ==
    /\ ~aborted
    /\ notified[p].ended
    /\ notified' = [notified EXCEPT ![p].invited = FALSE, ![p].ended = FALSE]
    /\ UNCHANGED <<calls, audio, aborted, last, snap, nops, groupCalls, gsnap, thr,
                   callsLock, audioSettings, enc, coreavThread, iterateTimer,
                   aec_mutex, dsp, frame, fileInfos, db>>

NextNotify ==
    \/ SetAudio
    \/ \E p \in Peers, video \in BOOLEAN :
       \E err \in ReadIf(p \notin DOMAIN calls, TxResults) :
       \E fps \in ReadIf(p \notin DOMAIN calls /\ err = "OK", {20}) :
          /\ audio
          /\ NotifyRan("startCall", p, <<>>,
                       startCall(calls, audio, p, video, err, fps), notified)
    \/ \E p \in Peers, audioFlag \in BOOLEAN, video \in BOOLEAN :
       \E err \in ReadIf(p \in DOMAIN calls, TxResults) :
          /\ audio
          /\ NotifyRan("callCallback", p, <<audioFlag, video>>,
                       callCallback(calls, audio, p, audioFlag, video, err), notified)
    \/ \E p \in Peers, video \in BOOLEAN :
       \E err \in ReadIf(p \in DOMAIN calls, TxResults) :
       \E controlErr \in ReadIf(p \in DOMAIN calls /\ err # "OK", TxResults) :
          audio /\ UiAnswerCall(p, video, err, controlErr, 20)
    \/ \E p \in Peers, err \in TxResults :
          /\ audio
          /\ NotifyRan("cancelCall", p, <<>>, cancelCall(calls, p, err), notified)
    \/ \E p \in Peers :
       \E state \in (IF p \in DOMAIN calls THEN StateMasks ELSE TerminalMasks) :
          /\ audio
          /\ NotifyRan("stateCallback", p, <<ReadOfMask(state)>>,
                       stateCallback(calls, p, state), notified)
    \/ \E p \in Peers : UiEnded(p)

SpecNotify == Init /\ [][NextNotify]_vars

----------------------------------------------------------------------------
(* The video paths under callsLock: sendNoVideo is called by the UI thread,
   sendCallVideo by the video producer thread, on a registry of calls that
   were set up earlier. *)

(* a Call as startCall or callCallback inserts it, and as answerCall or a
   first state update makes it active *)
EstablishedCalls ==
    {NewCall(TRUE),
     [NewCall(FALSE) EXCEPT !.active = TRUE, !.state = {"SENDING_A", "ACCEPTING_A"}],
     [NewCall(TRUE) EXCEPT !.active = TRUE,
                           !.state = {"SENDING_A", "ACCEPTING_A",
                                      "SENDING_V", "ACCEPTING_V"}]}

Registries == UNION {[K -> EstablishedCalls] : K \in SUBSET Peers}

VideoHandlers ==
    [t \in Threads |->
        IF t = "ui" THEN {"nv_lock"} ELSE IF t = "video" THEN {"v_probe"} ELSE {}]

(* thread t calls sendNoVideo, or sendCallVideo for peer p *)
VideoEnter(t, entry, p) ==
    /\ nops < MaxOps
    /\ At(t, "idle")
    /\ entry \in VideoHandlers[t]
    /\ thr' = [thr EXCEPT ![t] = [Idle EXCEPT !.pc = entry, !.p = p]]
    /\ nops' = nops + 1
    /\ UNCHANGED <<calls, callsLock, Quiet>>

(* CoreAV::sendNoVideo, lines 1254-1270 *)
NvLock(t) ==        \* line 1257: QWriteLocker locker{&callsLock}
    /\ At(t, "nv_lock") /\ CanLockForWrite(callsLock, t)
    /\ callsLock' = LockedForWrite(callsLock, t)
    /\ Goto(t, "nv_loop")
    /\ UNCHANGED <<calls, nops, Quiet>>
NvLoop(t, errs) ==  \* lines 1261-1269: the loop over calls
    /\ At(t, "nv_loop")
    /\ LET o == sendNoVideo(calls, errs)
       IN  /\ calls' = o.calls
           /\ snap' = calls /\ gsnap' = groupCalls
           /\ last' = [op |-> "sendNoVideo", peer |-> Null, arg |-> <<>>,
                       ret |-> o.ret, tx |-> o.tx, ev |-> o.ev, opts |-> o.opts,
                       filt |-> o.filt, vs |-> o.vs]
    /\ Goto(t, "nv_unlock")
    /\ UNCHANGED <<callsLock, nops, audio, aborted, groupCalls, ext>>
NvUnlock(t) ==      \* line 1270: the locker unlocks at return
    /\ At(t, "nv_unlock")
    /\ callsLock' = UnlockedWrite(callsLock)
    /\ thr' = [thr EXCEPT ![t] = Idle]
    /\ UNCHANGED <<calls, nops, Quiet>>

InitVideo ==
    /\ calls \in Registries
    /\ snap = calls /\ groupCalls = << >> /\ gsnap = << >>
    /\ audio = TRUE /\ aborted = FALSE /\ nops = 0
    /\ last = [op |-> "init", peer |-> 0, arg |-> <<>>, ret |-> "void", tx |-> <<>>,
               ev |-> <<>>, opts |-> NoOpts, filt |-> FALSE, vs |-> "none"]
    /\ InitExt
    /\ thr = [t \in Threads |-> Idle]
    /\ callsLock = [w |-> "none", n |-> 0, r |-> [t \in Threads |-> 0],
                    recursive |-> TRUE]

NextVideo ==
    \/ \E t \in Threads : \E entry \in VideoHandlers[t] :
       \E p \in (IF entry = "nv_lock" THEN {Null} ELSE Peers) :
          VideoEnter(t, entry, p)
    \/ \E t \in Threads : NvLock(t)
    \/ \E t \in Threads, errs \in [DOMAIN calls -> TxResults] : NvLoop(t, errs)
    \/ \E t \in Threads : NvUnlock(t)
    \/ \E t \in Threads : VProbe(t)
    \/ \E t \in Threads : VProbeUnlock(t)
    \/ \E t \in Threads : VLock(t)
    \/ \E t \in Threads :
       LET sends == thr[t].p \in DOMAIN calls IN
       \E bitrateErr \in ReadIf(sends /\ calls[thr[t].p].nullVideoBitrate, TxResults) :
       \E frameOk \in ReadIf(sends /\ bitrateErr = "OK", BOOLEAN) :
       \E err \in ReadIf(sends /\ bitrateErr = "OK" /\ frameOk, SendResults) :
          VFind(t, bitrateErr, frameOk, err)
    \/ \E t \in Threads : VUnlock(t)

SpecVideo == InitVideo /\ [][NextVideo]_vars

----------------------------------------------------------------------------
(* The receive path.  A call into the echo canceller or into playback is
   recorded like a transport call, with the buffer it is handed in the place
   of the answer: <<offset, length>> in the downsampled buffer for
   WebRtcAecm_BufferFarend, <<sampleCount, channels, samplingRate>> for
   playAudioBuffer. *)

(* sampleCount of a received frame: none, 10 ms less one, 10, 40, 60, 80 ms *)
SampleCounts == {0, 479, 480, 1920, 2880, 3840}

(* the far-end feed of lines 1436-1462 for a frame that passed the gate *)
BufferFarend(friendNum, sampleCount, samplingRate) ==
    LET audio_frame_in_ms == (sampleCount * 1000) \div samplingRate
        split_factor == audio_frame_in_ms \div 10
        sample_count_split == sampleCount \div split_factor
    IN  IF audio_frame_in_ms >= 10
        THEN <<Tx("downsample_48000_to_16000_basic", friendNum,
                  downsample_48000_to_16000_basic(sampleCount).written)>>
             \o [x \in 1..split_factor |->
                    Tx("WebRtcAecm_BufferFarend", friendNum,
                       <<(x - 1) * (sample_count_split \div 3),
                         sample_count_split \div 3>>)]
        ELSE <<>>

(* audioFrameCallback feeding the canceller whatever the length of the frame *)
audioFrameCallbackAnyLength(cs, friendNum, sampleCount, channels, samplingRate, echoCancellation) ==
    IF friendNum \notin DOMAIN cs
    THEN Res("void", cs)
    ELSE IF cs[friendNum].muteVol
    THEN Res("void", cs)
    ELSE [Res("void", cs) EXCEPT
              !.tx = (IF channels = 1 /\ samplingRate = AUDIO_SAMPLE_RATE
                         /\ echoCancellation
                      THEN BufferFarend(friendNum, sampleCount, samplingRate)
                      ELSE <<>>)
                     \o <<Tx("playAudioBuffer", friendNum,
                             <<sampleCount, channels, samplingRate>>)>>]

(* CoreAV::audioFrameCallback, lines 1409-1468 *)
audioFrameCallback(cs, friendNum, sampleCount, channels, samplingRate, echoCancellation) ==
    IF friendNum \notin DOMAIN cs
    THEN Res("void", cs)
    ELSE IF cs[friendNum].muteVol
    THEN Res("void", cs)
    ELSE [Res("void", cs) EXCEPT
              !.tx = (IF channels = 1 /\ samplingRate = AUDIO_SAMPLE_RATE
                         /\ (sampleCount = 1920 \/ sampleCount = 2880)
                         /\ echoCancellation
                      THEN BufferFarend(friendNum, sampleCount, samplingRate)
                      ELSE <<>>)
                     \o <<Tx("playAudioBuffer", friendNum,
                             <<sampleCount, channels, samplingRate>>)>>]

AudioFrameCallback(p, sampleCount, channels, samplingRate) ==
    Ran("audioFrameCallback", p, <<sampleCount, channels, samplingRate>>,
        audioFrameCallback(calls, p, sampleCount, channels, samplingRate,
                           audioSettings.echoCancellation))

NextFarend ==
    \/ \E p \in Peers : ToggleMuteCallOutput(p)
    \/ \E v \in BOOLEAN : SetEchoCancellation(v)
    \/ \E p \in Peers, sampleCount \in SampleCounts, channels \in Channels,
          samplingRate \in Rates :
          AudioFrameCallback(p, sampleCount, channels, samplingRate)

SpecFarend == InitVideo /\ [][NextFarend]_vars

----------------------------------------------------------------------------
(* File transfers in the chat history (history.cpp, stored as
   src/src/widget/form/settings/aboutform.cpp).  A file is recorded with an
   INSERT queued by addNewFileMessage; when the database has run it, the
   row id comes back through the signal fileInserted.  The completion of the
   transfer is reported by setFileFinished, before or after that. *)

FileIds == 1..NumFiles

(* a default-constructed History::FileInfo (history.h): not finished, no row *)
NewFileInfo ==
    [finished |-> FALSE, success |-> FALSE, filePath |-> "", fileHash |-> "",
     fileId |-> -1]

(* QHash::operator[]: the entry of key k, default-constructed when absent *)
Subscript(fi, k) == IF k \in DOMAIN fi THEN fi ELSE Emplace(fi, k, NewFileInfo)

(* the row id the database gives to the history row of file f *)
RowIdOf(f) == 100 + f

(* the INSERT of generateNewFileTransferQueries, lines 711-759 *)
generateNewFileTransferQueries(fileId) == [q |-> "insert", fileId |-> fileId]

(* History::generateFileFinished: the UPDATE of the row with the final state *)
generateFileFinished(id, success, filePath, fileHash) ==
    [q |-> "finished", id |-> id, success |-> success, filePath |-> filePath,
     fileHash |-> fileHash]

(* History::onFileInserted, lines 698-709 *)
onFileInserted(fi, later, dbId, fileId) ==
    LET fi1 == Subscript(fi, fileId)
        fileInfo == fi1[fileId]
    IN  IF fileInfo.finished
        THEN [fileInfos |-> Erase(fi1, fileId),
              later |-> Append(later, generateFileFinished(
                            dbId, fileInfo.success, fileInfo.filePath,
                            fileInfo.fileHash))]
        ELSE [fileInfos |-> [fi1 EXCEPT ![fileId].finished = FALSE,
                                        ![fileId].fileId = dbId],
              later |-> later]

(* History::setFileFinished, lines 1306-1324, history access not blocked *)
setFileFinished(fi, later, fileId, success, filePath, fileHash) ==
    LET fi1 == Subscript(fi, fileId)
        fileInfo == fi1[fileId]
    IN  IF fileInfo.fileId = -1
        THEN [fileInfos |-> Erase([fi1 EXCEPT ![fileId].finished = TRUE,
                                              ![fileId].success = success,
                                              ![fileId].filePath = filePath,
                                              ![fileId].fileHash = fileHash],
                                  fileId),
              later |-> later]
        ELSE [fileInfos |-> Erase(fi1, fileId),
              later |-> Append(later, generateFileFinished(
                            fileInfo.fileId, success, filePath, fileHash))]

HistoryQuiet == <<calls, audio, aborted, last, snap, nops, groupCalls, gsnap, thr,
                  callsLock, audioSettings, enc, coreavThread, iterateTimer,
                  aec_mutex, dsp, frame, notified>>

(* History::addNewFileMessage, lines 781-820: the INSERT is queued *)
AddNewFileMessage(f) ==
    /\ \A i \in 1..Len(db.later) : db.later[i] # generateNewFileTransferQueries(f)
    /\ db' = [db EXCEPT !.later = Append(@, generateNewFileTransferQueries(f))]
    /\ UNCHANGED <<fileInfos, HistoryQuiet>>

(* the database has run the INSERT of f: fileInserted(id, fileId) is emitted
   (line 756) and delivered to onFileInserted (line 547) *)
FileInserted(f) ==
    LET o == onFileInserted(fileInfos, db.later, RowIdOf(f), f)
    IN  /\ \E i \in 1..Len(db.later) : db.later[i] = generateNewFileTransferQueries(f)
        /\ f \notin db.rows
        /\ fileInfos' = o.fileInfos
        /\ db' = [db EXCEPT !.rows = @ \cup {f}, !.later = o.later]
        /\ UNCHANGED HistoryQuiet

(* the transfer of f ends and its final state is reported *)
SetFileFinished(f, success) ==
    LET o == setFileFinished(fileInfos, db.later, f, success, "path", "hash")
    IN  /\ \E i \in 1..Len(db.later) : db.later[i] = generateNewFileTransferQueries(f)
        /\ f \notin db.reported
        /\ fileInfos' = o.fileInfos
        /\ db' = [db EXCEPT !.reported = @ \cup {f}, !.later = o.later]
        /\ UNCHANGED HistoryQuiet

NextHistory ==
    \/ \E f \in FileIds : AddNewFileMessage(f)
    \/ \E f \in FileIds : FileInserted(f)
    \/ \E f \in FileIds, success \in BOOLEAN : SetFileFinished(f, success)

SpecHistory == Init /\ [][NextHistory]_vars

----------------------------------------------------------------------------
(* What the most recent handler did *)

Sent(f) == SelectSeq(last.tx, LAMBDA t : t.f = f)
Emitted(sig) == SelectSeq(last.ev, LAMBDA e : e.sig = sig)
Was(op) == last.op = op
HadCall == last.peer \in DOMAIN snap
Ringing(call) == ~call.active /\ call.state = {}
OthersUntouched ==
    \A q \in Peers \ {last.peer} :
        /\ (q \in DOMAIN calls) = (q \in DOMAIN snap)
        /\ q \in DOMAIN snap => calls[q] = snap[q]

----------------------------------------------------------------------------
(* C1: whenever startCall(p, _) runs while the registry holds a Call for p
   (startCall(p, _) succeeded earlier and p was not torn down since), it
   returns false, asks the transport for nothing, and the registry is as it
   was: it still holds exactly one Call for p. *)
C1_SecondStartCallRefused ==
    (Was("startCall") /\ HadCall) =>
        /\ last.ret = "false"
        /\ last.tx = <<>>
        /\ calls = snap
        /\ Cardinality({q \in DOMAIN calls : q = last.peer}) = 1

C1_Witness ==
    /\ Was("startCall") /\ HadCall
    /\ snap[last.peer] \in {NewCall(TRUE), NewCall(FALSE)}
    /\ last.ret = "false"

(* C2: after a state callback for p with the error bit set, p is absent from
   the registry whatever its Call was before; if p had a Call, exactly one
   avEnd is emitted, for p and with the abnormal flag, also when the finished
   bit is set in the same update. *)
C2_ErrorRemovesCall ==
    (Was("stateCallback") /\ "ERROR" \in last.arg[1]) =>
        /\ last.peer \notin DOMAIN calls
        /\ OthersUntouched
        /\ HadCall => /\ Len(Emitted("avEnd")) = 1
                      /\ Emitted("avEnd")[1].p = last.peer
                      /\ Emitted("avEnd")[1].flag = TRUE
                      /\ Len(last.ev) = 1

C2_Witness ==
    /\ Was("stateCallback") /\ HadCall
    /\ {"ERROR", "FINISHED"} \subseteq last.arg[1]
    /\ snap[last.peer].active
    /\ last.peer \notin DOMAIN calls

(* C3: cancelCall(p) asks the transport for the cancel control exactly once,
   with or without a Call for p.  On a transport error it returns false,
   leaves the registry as it was and emits nothing; on acknowledgment it
   returns true, p is absent afterwards and exactly one avEnd for p is
   emitted. *)
C3_CancelCall ==
    Was("cancelCall") =>
        /\ Len(last.tx) = 1
        /\ last.tx[1].f = "toxav_call_control" /\ last.tx[1].p = last.peer
        /\ last.tx[1].r # "OK" =>
              /\ last.ret = "false"
              /\ calls = snap
              /\ last.ev = <<>>
        /\ last.tx[1].r = "OK" =>
              /\ last.ret = "true"
              /\ last.peer \notin DOMAIN calls
              /\ OthersUntouched
              /\ Len(last.ev) = 1
              /\ last.ev[1].sig = "avEnd" /\ last.ev[1].p = last.peer

C3_Witness ==
    /\ Was("cancelCall") /\ ~HadCall
    /\ Len(last.tx) = 1 /\ last.tx[1].r = "ERR"
    /\ last.ret = "false"
    /\ last.peer \notin DOMAIN calls

(* C4: answerCall(p, _) with a Call for p: when the transport accepts, the
   Call stays, is active and answerCall returns true; when the transport
   rejects, the cancel control is sent for p, the Call is removed and
   answerCall returns false. *)
C4_AnswerCall ==
    (Was("answerCall") /\ HadCall) =>
        /\ Len(last.tx) >= 1 /\ last.tx[1].f = "toxav_answer"
        /\ last.tx[1].r = "OK" =>
              /\ last.ret = "true"
              /\ calls = [snap EXCEPT ![last.peer].active = TRUE]
              /\ Sent("toxav_call_control") = <<>>
        /\ last.tx[1].r # "OK" =>
              /\ last.ret = "false"
              /\ Len(Sent("toxav_call_control")) = 1
              /\ Sent("toxav_call_control")[1].p = last.peer
              /\ last.peer \notin DOMAIN calls
              /\ OthersUntouched

C4_Witness ==
    /\ Was("answerCall") /\ HadCall
    /\ last.tx[1].r = "ERR"
    /\ last.ret = "false"
    /\ last.peer \notin DOMAIN calls

(* C5: sendCallAudio for an id without a Call returns false; for a Call whose
   microphone is muted it returns true; in both cases toxav_audio_send_frame
   is not invoked. *)
C5_SendAudioBoundary ==
    Was("sendCallAudio") =>
        /\ ~HadCall =>
              last.ret = "false" /\ Sent("toxav_audio_send_frame") = <<>>
        /\ (HadCall /\ snap[last.peer].muteMic) =>
              last.ret = "true" /\ Sent("toxav_audio_send_frame") = <<>>

C5_Witness ==
    /\ Was("sendCallAudio") /\ HadCall
    /\ snap[last.peer].muteMic
    /\ last.ret = "true"

(* C6: sendCallAudio on an id without a Call returns false; on a Call whose
   microphone is muted, or whose stored state lacks the accepting-audio bit,
   it returns true.  In all three cases neither the filter nor
   toxav_audio_send_frame is invoked and the registry is left as it was. *)
C6_SendAudioNoOp ==
    Was("sendCallAudio") =>
        /\ ~HadCall =>
              /\ last.ret = "false"
              /\ ~last.filt /\ last.tx = <<>> /\ calls = snap
        /\ (HadCall /\ (snap[last.peer].muteMic
                        \/ "ACCEPTING_A" \notin snap[last.peer].state)) =>
              /\ last.ret = "true"
              /\ ~last.filt /\ last.tx = <<>> /\ calls = snap

C6_Witness ==
    /\ Was("sendCallAudio") /\ HadCall
    /\ snap[last.peer].active /\ ~snap[last.peer].muteMic
    /\ "ACCEPTING_A" \notin snap[last.peer].state
    /\ last.ret = "true" /\ last.tx = <<>>

(* C6 as stated: true without filter or transport send in each of the three
   cases, the id without a Call included *)
C6_AsStated ==
    (Was("sendCallAudio")
       /\ (~HadCall \/ snap[last.peer].muteMic
                    \/ "ACCEPTING_A" \notin snap[last.peer].state)) =>
        last.ret = "true" /\ ~last.filt /\ last.tx = <<>>

(* C7: sendCallVideo(p, frame) invokes no transport function (neither
   toxav_video_send_frame nor toxav_video_set_bit_rate) and leaves the
   registry as it was whenever p has no Call, or its Call has video disabled,
   is inactive, or its stored state lacks the accepting-video bit. *)
C7_SendVideoGated ==
    (Was("sendCallVideo")
       /\ (~HadCall \/ ~snap[last.peer].videoEnabled
                    \/ ~snap[last.peer].active
                    \/ "ACCEPTING_V" \notin snap[last.peer].state)) =>
        /\ last.tx = <<>>
        /\ calls = snap
        /\ last.ret = "void"

C7_Witness ==
    /\ Was("sendCallVideo") /\ HadCall
    /\ snap[last.peer].videoEnabled /\ snap[last.peer].active
    /\ "ACCEPTING_V" \notin snap[last.peer].state
    /\ last.tx = <<>>

(* C8: an invite for a peer p without a Call, with audio flag a and video
   flag v, adds exactly one Call for p, whose state is {sending-audio,
   accepting-audio} if a, plus {sending-video, accepting-video} if v, and
   nothing else; exactly one avInvite(p, v) is emitted, with the registry
   lock released. *)
C8_Invite ==
    (Was("callCallback") /\ ~HadCall) =>
        LET a == last.arg[1]
            v == last.arg[2]
            bits == (IF a THEN {"SENDING_A", "ACCEPTING_A"} ELSE {})
                    \cup (IF v THEN {"SENDING_V", "ACCEPTING_V"} ELSE {})
        IN  /\ DOMAIN calls = DOMAIN snap \cup {last.peer}
            /\ OthersUntouched
            /\ calls[last.peer].state = bits
            /\ last.ev = <<Ev("avInvite", last.peer, v, "none")>>
            /\ last.tx = <<>>

C8_Witness ==
    /\ Was("callCallback") /\ ~HadCall
    /\ last.arg = <<TRUE, FALSE>>
    /\ calls[last.peer].state = {"SENDING_A", "ACCEPTING_A"}
    /\ Len(last.ev) = 1 /\ last.ev[1].flag = FALSE

(* C9: two consecutive toggleMuteCallInput(p) with nothing in between, p
   having a Call, leave the registry exactly as it was before the first one:
   the microphone-mute flag is back, every other field and the membership are
   unchanged.  The same for toggleMuteCallOutput and the volume-mute flag. *)
C9_ToggleTwice ==
    [][(/\ nops' # nops
        /\ last.op \in {"toggleMuteCallInput", "toggleMuteCallOutput"}
        /\ last'.op = last.op
        /\ last'.peer = last.peer
        /\ HadCall)
       => calls' = snap]_vars

C9_Witness ==
    /\ Was("toggleMuteCallInput") /\ HadCall
    /\ snap[last.peer].muteMic
    /\ ~calls[last.peer].muteMic

(* C10: startCall(p, v) returns true exactly when p has no Call and the
   transport accepts toxav_call.  When it returns false the registry is as it
   was; when it returns true the registry holds one new Call for p, inactive
   and with an all-zero state (isCallStarted(p), not isCallActive(p)).  A Call
   in that condition stays in it across every handler except a state callback
   for p, answerCall(p, _) and cancelCall(p). *)
C10_StartCall ==
    /\ Was("startCall") =>
          /\ last.ret = "true" <=>
                (~HadCall /\ last.tx = <<Tx("toxav_call", last.peer, "OK")>>)
          /\ last.ret \in {"true", "false"}
          /\ last.ret = "false" => calls = snap
          /\ last.ret = "true" =>
                /\ DOMAIN calls = DOMAIN snap \cup {last.peer}
                /\ OthersUntouched
                /\ Ringing(calls[last.peer])
                /\ isCallStarted(calls, last.peer)
                /\ ~isCallActive(calls, last.peer)
    /\ \A p \in DOMAIN snap :
          (/\ Ringing(snap[p])
           /\ ~(last.peer = p
                /\ last.op \in {"stateCallback", "answerCall", "cancelCall"}))
          => /\ p \in DOMAIN calls
             /\ Ringing(calls[p])
             /\ isCallStarted(calls, p) /\ ~isCallActive(calls, p)

C10_Witness ==
    /\ Was("sendNoVideo")
    /\ \E p \in DOMAIN snap :
          /\ snap[p] = NewCall(TRUE)
          /\ isCallStarted(calls, p) /\ ~isCallActive(calls, p)

(* C10 as stated: the new Call stays started and inactive across every step
   that is not a state callback for p *)
C10_AsStated ==
    [][/\ (nops' # nops /\ last'.op = "startCall") =>
            /\ last'.ret = "true" <=>
                  (last'.peer \notin DOMAIN calls
                   /\ last'.tx = <<Tx("toxav_call", last'.peer, "OK")>>)
            /\ last'.ret = "false" => calls' = calls
            /\ last'.ret = "true" =>
                  /\ isCallStarted(calls', last'.peer)
                  /\ ~isCallActive(calls', last'.peer)
       /\ (/\ Was("startCall") /\ last.ret = "true"
           /\ ~(last'.op = "stateCallback" /\ last'.peer = last.peer))
          => /\ isCallStarted(calls', last.peer)
             /\ ~isCallActive(calls', last.peer)]_vars

(* C18: a sendCallAudio that reaches the transport terminates and returns
   true whatever the transport answers: toxav_audio_send_frame is invoked at
   most MaxRetries times, every invocation but the last was answered SYNC,
   every SYNC answer is followed by a sleep, an answer other than SYNC (OK or
   another error) ends the attempts at once, and after MaxRetries SYNC
   answers the frame is dropped. *)
C18_AudioRetryBounded ==
    (Was("sendCallAudio") /\ Sent("toxav_audio_send_frame") # <<>>) =>
        LET sends == Sent("toxav_audio_send_frame")
            n == Len(sends)
        IN  /\ last.ret = "true"
            /\ n <= MaxRetries
            /\ \A i \in 1..(n - 1) : sends[i].r = "SYNC"
            /\ sends[n].r = "SYNC" => n = MaxRetries
            /\ Len(Sent("usleep")) = Cardinality({i \in 1..n : sends[i].r = "SYNC"})
            /\ \A i \in 1..Len(last.tx) :
                  (last.tx[i].f = "toxav_audio_send_frame" /\ last.tx[i].r = "SYNC")
                  => (i < Len(last.tx) /\ last.tx[i + 1].f = "usleep")
            /\ calls = snap

C18_Witness ==
    /\ Was("sendCallAudio")
    /\ Len(Sent("toxav_audio_send_frame")) = MaxRetries
    /\ Sent("toxav_audio_send_frame")[MaxRetries].r = "SYNC"
    /\ last.ret = "true"

(* C19: sendCallVideo invokes toxav_video_send_frame at most once, whatever
   the transport answers (SYNC included); after the send the registry has the
   same entries and the Call is as it was when the frame was handed over (the
   nulled-bitrate flag, cleared before the send, is the only field that
   sendCallVideo writes). *)
C19_VideoSentOnce ==
    Was("sendCallVideo") =>
        /\ Len(Sent("toxav_video_send_frame")) <= 1
        /\ Sent("toxav_video_send_frame") # <<>> =>
              /\ HadCall
              /\ last.tx[Len(last.tx)].f = "toxav_video_send_frame"
              /\ calls = [snap EXCEPT ![last.peer].nullVideoBitrate = FALSE]
              /\ ~snap[last.peer].nullVideoBitrate => calls = snap

C19_Witness ==
    /\ Was("sendCallVideo")
    /\ Len(Sent("toxav_video_send_frame")) = 1
    /\ Sent("toxav_video_send_frame")[1].r = "SYNC"
    /\ calls = snap

(* C11: each of the queries isCallStarted, isCallActive, isCallVideoEnabled,
   isCallInputMuted, isCallOutputMuted, isGroupCallInputMuted,
   isGroupCallOutputMuted returns false, and each of toggleMuteCallInput,
   toggleMuteCallOutput, muteCallInput, muteCallOutput does nothing, when its
   identifier is null or has no Call; none dereferences a null identifier and
   none changes the membership of either map. *)
C11_NullSafe ==
    LET queries == {"isCallStarted", "isCallStarted(Group)", "isCallActive",
                    "isCallActive(Group)", "isCallVideoEnabled",
                    "isCallInputMuted", "isCallOutputMuted",
                    "isGroupCallInputMuted", "isGroupCallOutputMuted"}
        onGroup == {"isCallStarted(Group)", "isCallActive(Group)",
                    "isGroupCallInputMuted", "isGroupCallOutputMuted",
                    "muteCallInput", "muteCallOutput"}
        commands == {"toggleMuteCallInput", "toggleMuteCallOutput",
                     "muteCallInput", "muteCallOutput"}
        noCall == \/ last.peer = Null
                  \/ last.op \in onGroup /\ last.peer \notin DOMAIN gsnap
                  \/ last.op \notin onGroup /\ last.peer \notin DOMAIN snap
    IN  (last.op \in queries \cup commands /\ Len(last.arg) = 1) =>
            /\ last.arg[1] = FALSE
            /\ ~aborted
            /\ DOMAIN calls = DOMAIN snap /\ DOMAIN groupCalls = DOMAIN gsnap
            /\ (last.op \in queries /\ noCall) => last.ret = "false"
            /\ (last.op \in queries) => (calls = snap /\ groupCalls = gsnap)
            /\ (last.op \in commands /\ noCall) =>
                  (calls = snap /\ groupCalls = gsnap)

(* C12: with the audio backend set, joinGroupCall(g) on a group without a
   group call adds exactly one entry for g, marked active; on a group that has
   one it leaves groupCalls as it was (active flag, mute flags, peer sources);
   leaveGroupCall(g) removes the entry of g and changes nothing when there is
   none; neither changes the peer-call map. *)
C12_JoinLeave ==
    /\ (Was("joinGroupCall") /\ audio) =>
          /\ last.ret = "void" /\ ~aborted
          /\ calls = snap
          /\ last.peer \in DOMAIN gsnap => groupCalls = gsnap
          /\ last.peer \notin DOMAIN gsnap =>
                /\ DOMAIN groupCalls = DOMAIN gsnap \cup {last.peer}
                /\ \A k \in DOMAIN gsnap : groupCalls[k] = gsnap[k]
                /\ groupCalls[last.peer].active
    /\ Was("leaveGroupCall") =>
          /\ calls = snap
          /\ last.peer \notin DOMAIN groupCalls
          /\ DOMAIN groupCalls = DOMAIN gsnap \ {last.peer}
          /\ \A k \in DOMAIN groupCalls : groupCalls[k] = gsnap[k]
          /\ last.peer \notin DOMAIN gsnap => groupCalls = gsnap

C12_Witness ==
    /\ Was("joinGroupCall") /\ audio
    /\ last.peer \in DOMAIN gsnap
    /\ gsnap[last.peer].peers # {}
    /\ groupCalls = gsnap

(* C13: when ~CoreAV has run, whatever the registry held and whatever the
   transport answered, a cancel was issued for every peer call, both maps are
   empty at the emptiness assertions, and the iteration thread was then
   stopped and joined. *)
C13_DestructorEmpties ==
    Was("~CoreAV") =>
        /\ \A k \in DOMAIN snap :
              \E i \in 1..Len(last.tx) :
                 last.tx[i].f = "toxav_call_control" /\ last.tx[i].p = k
        /\ calls = << >>
        /\ groupCalls = << >>
        /\ last.ret = "void"

(* C20: with no audio backend set, startCall returns false and joinGroupCall
   does nothing: no transport request, both maps as they were, no abort. *)
C20_NoAudioRejected ==
    (last.op \in {"startCall", "joinGroupCall"} /\ ~audio) =>
        /\ last.ret \in {"false", "void"}
        /\ last.tx = <<>>
        /\ calls = snap
        /\ groupCalls = gsnap
        /\ ~aborted

(* C14: in every execution of cancelCall, also when it is called by
   timeoutCall or by the destructor, the thread holds callsLock in no mode
   when it invokes toxav_call_control, and holds it for writing when it
   erases the entry. *)
C14_CancelDropsLock ==
    \A t \in Threads :
        /\ At(t, "cc_control") => Mode(t) = "none"
        /\ At(t, "cc_erase") => Mode(t) = "write"

(* C15: every signal to the UI (avInvite, avStart, avEnd) is emitted by a
   thread that holds callsLock in no mode: in callCallback, in stateCallback,
   in cancelCall, and in cancelCall called by timeoutCall. *)
C15_EmitUnlocked ==
    \A t \in Threads :
        thr[t].pc \in {"cb_emit", "st_emit", "cc_emit"} => Mode(t) = "none"

(* C16: every lookup in calls, and every read of a Call found there, is made
   by a thread that holds callsLock for reading or writing; so no thread
   looks up or iterates calls while another inserts or erases an entry. *)
C16_AccessLocked ==
    LET reads == {"a_find", "f_find", "d_iter", "v_find"}
        writes == {"cb_emplace", "st_find", "cc_erase"}
    IN  /\ \A t \in Threads :
              thr[t].pc \in reads \cup writes => Mode(t) # "none"
        /\ \A t, u \in Threads :
              ~(t # u /\ thr[t].pc \in reads /\ thr[u].pc \in writes)

(* C17: sendCallVideo never waits for callsLock: whenever the producer thread
   is at the lockForRead of line 886, the lock can be taken at once. *)
C17_VideoNeverBlocks ==
    \A t \in Threads : At(t, "v_lock") => CanLockForRead(callsLock, t)

----------------------------------------------------------------------------
(* the update a state callback carried, and the Call it met *)
Update == last.arg[1]
Met == snap[last.peer]
NonTerminalUpdate ==
    Was("stateCallback") /\ HadCall /\ Update \cap {"ERROR", "FINISHED"} = {}

(* C27: a state callback for an existing Call with the finished bit set and
   the error bit clear removes the entry and emits exactly one avEnd without
   the abnormal flag, whatever the other bits and the stored state; it emits
   no avStart and makes no call on the video source. *)
C27_FinishedQuiet ==
    (Was("stateCallback") /\ HadCall /\ Update = {"FINISHED"}) =>
        /\ calls = Erase(snap, last.peer)
        /\ last.ev = <<Ev("avEnd", last.peer, FALSE, "none")>>
        /\ last.vs = "none"
        /\ last.tx = <<>>

C27_Witness ==
    /\ Was("stateCallback") /\ HadCall /\ Update = {"FINISHED"}
    /\ Met.state = {}
    /\ last.peer \notin DOMAIN calls

(* C28: a state callback without error or finished bit, for an existing Call
   whose stored state is all-zero, with a non-zero new state: the Call becomes
   active, its stored state becomes the new state, the entry stays, and exactly
   one avStart(peer, the Call's video-enabled flag) is emitted, with the lock
   released. *)
C28_FirstState ==
    (NonTerminalUpdate /\ Met.state = {} /\ Update # {}) =>
        /\ calls = [snap EXCEPT ![last.peer].active = TRUE,
                                ![last.peer].state = Update]
        /\ last.ev = <<Ev("avStart", last.peer, Met.videoEnabled, "none")>>
        /\ last.vs = "none"

C28_Witness ==
    /\ NonTerminalUpdate /\ Met.state = {} /\ Update # {}
    /\ Met.videoEnabled /\ "SENDING_V" \notin Update
    /\ ~Met.active /\ calls[last.peer].active

(* C29: a non-terminal state callback that changes the peer's sending-video
   bit of a Call whose stored state is non-zero keeps the entry with its active
   and mute flags, stores the new state, pauses the Call's video source on a
   1 -> 0 transition and resumes it on 0 -> 1 (a Call without video source has
   none to pause), and emits no notification. *)
C29_VideoBitChange ==
    (/\ NonTerminalUpdate /\ Met.state # {}
     /\ ("SENDING_V" \in Met.state) # ("SENDING_V" \in Update)) =>
        /\ calls = [snap EXCEPT ![last.peer].state = Update]
        /\ last.ev = <<>>
        /\ last.tx = <<>>
        /\ last.vs = IF ~hasVideoSource(Met) THEN "none"
                     ELSE IF "SENDING_V" \in Met.state THEN "stopSource"
                     ELSE "restartSource"

C29_Witness ==
    /\ NonTerminalUpdate
    /\ "SENDING_V" \in Met.state /\ "SENDING_V" \notin Update
    /\ hasVideoSource(Met) /\ last.vs = "stopSource"
    /\ calls[last.peer].state = Update

(* C30: after any state callback without error or finished bit for an
   existing Call, the stored state of the Call is the bitmask the transport
   reported. *)
C30_StateStored ==
    NonTerminalUpdate => calls[last.peer].state = Update

(* C21: after every successful startCall, after every successful answerCall
   and after every comm-info event that reports the encoder's current bitrate
   for peer p, the encoder options in force in the transport for p are the row
   of the bitrate table selected by the configured frame rate, whatever frame
   rate is configured. *)
C21_PolicyInForce ==
    (\/ last.op \in {"startCall", "answerCall"} /\ last.ret = "true"
     \/ last.op = "videoCommCallback" /\ last.arg = <<"ENCODER_CURRENT_BITRATE">>)
    => enc[last.peer] = BitrateRow(audioSettings.screenVideoFPS)

(* C22: once the iteration thread has started, every run of process() invokes
   toxav_iterate exactly once and starts the one-shot timer exactly once,
   whatever the registry holds (also nothing); so as long as the thread is
   running, process() runs again and again. *)
C22_IterationRuns ==
    /\ [][(iterateTimer.pending /\ ~iterateTimer'.pending) =>
             /\ last'.op = "process"
             /\ Len(SelectSeq(last'.tx, LAMBDA t : t.f = "toxav_iterate")) = 1
             /\ Len(last'.arg) = 1
             /\ iterateTimer'.active
             /\ iterateTimer'.interval = last'.arg[1]]_vars
    /\ ([]<>(coreavThread # "running") \/ []<><<Iterates>>_vars)

C22_Witness ==
    /\ Was("process") /\ coreavThread = "running"
    /\ calls = << >> /\ nops > 1
    /\ iterateTimer.active /\ iterateTimer.interval = 10

(* C25: downsample called with fewer than 3 input samples returns an error
   code and writes nothing to the output buffer; upsample called with fewer
   than 1 input sample returns an error code and writes nothing. *)
C25_ShortInputRejected ==
    /\ (frame.op = "down" /\ frame.n < 3) => (frame.ret < 0 /\ frame.written = 0)
    /\ (frame.op = "up" /\ frame.n < 1) => (frame.ret < 0 /\ frame.written = 0)

C25_Witness ==
    frame.op = "down" /\ frame.n = 2 /\ frame.ret = -1 /\ frame.written = 0

(* C26: for every N that is a positive multiple of 3, downsampling N samples
   produces N/3 samples and upsampling those produces N samples again. *)
C26_ExactRatio ==
    (frame.n > 0 /\ frame.n % 3 = 0) =>
        /\ frame.op = "down" => (frame.ret = 0 /\ 3 * frame.written = frame.n)
        /\ frame.op = "downup" =>
              (frame.ret = 0 /\ 3 * frame.mid = frame.n /\ frame.written = frame.n)

C26_Witness ==
    /\ frame.op = "downup" /\ frame.n = 4800
    /\ frame.mid = 1600 /\ frame.written = 4800

(* C24: whenever a send frame is processed by the filter pipeline, the echo
   mode and the noise-suppression mode in force in the engines are the
   current values of the settings, whatever settings changes were made since
   the Orchestrator was constructed (also before the first frame, and across
   a restart in the same process). *)
C24_SettingsInForce ==
    (Was("sendCallAudio") /\ last.filt) =>
        /\ dsp.echoMode = audioSettings.aecechomode
        /\ dsp.nsPolicy = audioSettings.aecechonsmode

(* C23: the accesses that the audio send path and the audio receive path make
   to the process-wide DSP state (the echo canceller: processing, far-end
   buffering, reconfiguration; the two resamplers) are mutually exclusive: in
   no interleaving are two threads accessing the same instance. *)
C23_DspExclusive ==
    \A t, u \in Threads :
        (t # u /\ Using(t) # "none") => Using(u) # Using(t)

(* C31: whenever the UI calls answerCall(p) in response to an invite of p it
   has been shown, the registry holds a Call for p and the assertion of
   answerCall holds, whatever transport callbacks and UI commands ran between
   the invite and the answer. *)
C31_AnswerFindsCall ==
    Was("answerCall") => (HadCall /\ last.ret # "abort" /\ ~aborted)

(* C32: a peer's Call is removed from the registry exactly when one avEnd for
   that peer is emitted: every removal comes with exactly one avEnd, and no
   avEnd is emitted for a peer whose Call was not removed. *)
C32_EndedPerRemoval ==
    \A p \in Peers :
        Count(last.ev, "avEnd", p) =
            (IF p \in DOMAIN snap /\ p \notin DOMAIN calls THEN 1 ELSE 0)

(* C33: between the insertion of a peer's Call and its removal avStart is
   emitted at most once for that peer, and it is never emitted for a Call
   that is already active. *)
C33_StartedOnce ==
    /\ \A p \in Peers : notified[p].started <= 1
    /\ \A p \in Peers : Count(last.ev, "avStart", p) > 0 => ~snap[p].active

(* the gate of sendCallVideo, lines 898-902 *)
PassesVideoGate(call) ==
    call.videoEnabled /\ call.active /\ "ACCEPTING_V" \in call.state

(* C34: every change of the registry or of a field of a Call is made by a
   thread that holds callsLock in write mode, the clearing of the
   null-video-bitrate flag by sendCallVideo included. *)
C34_MutationWriteLocked ==
    [][\A t \in Threads :
          (thr'[t] # thr[t] /\ calls' # calls) => callsLock.w = t]_vars

(* C35: sendNoVideo sets the null-video-bitrate flag of exactly the Calls for
   which the transport accepted bitrate 0 and asks the transport once per
   Call.  A sendCallVideo that passes the gate for a Call with the flag set
   first asks the transport to restore the bitrate; when that is accepted the
   flag is cleared and at most the frame follows; when it is rejected nothing
   else is sent and the Call keeps the flag. *)
C35_NullBitrate ==
    /\ Was("sendNoVideo") =>
          /\ DOMAIN calls = DOMAIN snap
          /\ Len(last.tx) = Cardinality(DOMAIN snap)
          /\ \A i \in 1..Len(last.tx) :
                LET k == last.tx[i].p
                IN  /\ last.tx[i].f = "toxav_video_set_bit_rate"
                    /\ k \in DOMAIN snap
                    /\ \A j \in 1..Len(last.tx) : last.tx[j].p = k => j = i
                    /\ calls[k] = IF last.tx[i].r = "OK"
                                  THEN [snap[k] EXCEPT !.nullVideoBitrate = TRUE]
                                  ELSE snap[k]
    /\ (Was("sendCallVideo") /\ HadCall) =>
          LET p == last.peer
          IN  (PassesVideoGate(snap[p]) /\ snap[p].nullVideoBitrate) =>
                 /\ Len(last.tx) >= 1
                 /\ last.tx[1] \in {Tx("toxav_video_set_bit_rate", p, r) : r \in TxResults}
                 /\ IF last.tx[1].r = "OK"
                    THEN /\ calls = [snap EXCEPT ![p].nullVideoBitrate = FALSE]
                         /\ Len(last.tx) <= 2
                         /\ Len(last.tx) = 2 => last.tx[2].f = "toxav_video_send_frame"
                    ELSE /\ Len(last.tx) = 1
                         /\ calls = snap

(* a flagged Call passes the gate: the bitrate is restored, then the frame is
   sent, and the flag is cleared *)
C35_Witness ==
    /\ Was("sendCallVideo") /\ HadCall
    /\ PassesVideoGate(snap[last.peer]) /\ snap[last.peer].nullVideoBitrate
    /\ Len(last.tx) = 2 /\ last.tx[1].r = "OK"
    /\ ~calls[last.peer].nullVideoBitrate

(* C36: an invite for a peer that already has a Call in the registry leaves
   the registry as it is (the Call's state, active flag and mute flags
   included), emits no signal, and sends one cancel control for that peer to
   the transport. *)
C36_SecondInvite ==
    (Was("callCallback") /\ HadCall) =>
        /\ calls = snap
        /\ last.peer \in DOMAIN calls
        /\ last.ev = <<>>
        /\ Len(last.tx) = 1
        /\ last.tx[1].f = "toxav_call_control" /\ last.tx[1].p = last.peer

(* an answered call receives a second invite *)
C36_Witness ==
    /\ Was("callCallback") /\ HadCall
    /\ snap[last.peer].active /\ calls[last.peer].active
    /\ Len(last.tx) = 1

(* C37: the delay with which process re-arms the timer is max(i, m) of the
   interval i the transport reported and one fixed minimum m: any two
   iterations agree on m, and the delay does not decrease when the reported
   interval does not. *)
C37_ClampToMinimum ==
    [][(Was("process") /\ iterateTimer.pending /\ ~iterateTimer'.pending) =>
          LET i == last.tx[2].r
              d == last.arg[1]
              j == last'.tx[2].r
              e == last'.arg[1]
          IN  /\ \E m \in 0..(d + e) :
                    /\ d = (IF i >= m THEN i ELSE m)
                    /\ e = (IF j >= m THEN j ELSE m)
              /\ i <= j => d <= e]_vars

(* C39: in every row of the bitrate table that a handler applies, the minimum
   video bitrate handed to the transport is at most the maximum video bitrate
   handed to the transport. *)
C39_MinAtMostMax ==
    /\ last.opts # NoOpts => last.opts[3] <= last.opts[2]
    /\ \A p \in Peers : Len(enc[p]) = 3 => enc[p][3] <= enc[p][2]

(* C38: a received frame of a peer whose Call exists and is not muted is fed
   to the far-end buffer of the echo canceller exactly when it is mono, at
   48 kHz, of 1920 or 2880 samples, and echo cancellation is enabled; it is
   then fed as sampleCount / 480 chunks of 160 downsampled samples, in the
   order of the buffer (4 chunks for 1920, 6 for 2880).  Every other frame
   reaches no canceller call.  The frame is handed to playback as received,
   once, unless the Call is absent or its output is muted, and then nothing
   is called. *)
C38_FarendFeed ==
    Was("audioFrameCallback") =>
        LET n == last.arg[1]
            far == Sent("WebRtcAecm_BufferFarend")
            heard == HadCall /\ ~snap[last.peer].muteVol
            fed == /\ heard
                   /\ last.arg[2] = 1 /\ last.arg[3] = 48000
                   /\ n \in {1920, 2880}
                   /\ audioSettings.echoCancellation
        IN  /\ calls = snap
            /\ IF fed
               THEN /\ Len(far) = n \div 480
                    /\ Len(far) = (IF n = 1920 THEN 4 ELSE 6)
                    /\ \A x \in 1..Len(far) : far[x].r = <<(x - 1) * 160, 160>>
                    /\ last.tx[Len(last.tx)].f = "playAudioBuffer"
               ELSE far = <<>>
            /\ Sent("playAudioBuffer") =
                  (IF heard
                   THEN <<Tx("playAudioBuffer", last.peer, last.arg)>>
                   ELSE <<>>)
            /\ ~heard => last.tx = <<>>

(* a 60 ms mono frame at 48 kHz is fed as six chunks and then played *)
C38_Witness ==
    /\ Was("audioFrameCallback") /\ last.arg = <<2880, 1, 48000>>
    /\ Len(Sent("WebRtcAecm_BufferFarend")) = 6
    /\ Sent("WebRtcAecm_BufferFarend")[6].r = <<800, 160>>
    /\ Len(Sent("playAudioBuffer")) = 1

(* C40: for every file recorded in the history, once both the insertion
   callback and the completion report have happened, in either order, the
   update with the final state has been queued to the database exactly once
   and fileInfos holds no entry for the file. *)
C40_FinishedOnce ==
    \A f \in db.rows \cap db.reported :
        /\ Len(SelectSeq(db.later,
                         LAMBDA u : u.q = "finished" /\ u.id = RowIdOf(f))) = 1
        /\ f \notin DOMAIN fileInfos

=============================================================================
